---- MODULE Spec2Model ----
(***************************************************************************)
(* Model of the orchestration core of guardian-wallet's mpc-wasm package:  *)
(*   - the local simulator (simulate::run, and its native twin simulate),  *)
(*   - the interactive signing loop (sign::process_round for WASM and      *)
(*     run_sign_loop for the native stdio process).                        *)
(* The protocol state machines of the cggmp24 / round_based libraries are  *)
(* external: every call of proceed() and received_msg() is a               *)
(* nondeterministic choice over the results their signatures allow.        *)
(***************************************************************************)
EXTENDS Integers, Sequences, FiniteSets, TLC

(***************************************************************************)
(* Bounds of the model.                                                    *)
(***************************************************************************)
\* Largest number of parties handed to the simulator.
MaxN == 2
\* Outer iteration cap of the simulator.  The source uses 100_000
\* (simulate.rs:33, main.rs:41); the model runs the same loop with a small cap.
OuterCap == 2
\* Total number of SendMsg results the parties of one run may produce.
MaxSends == 2
\* Largest keygen index.
MaxIdx == 2
\* Number of distinct session ids the id generator can return.
MaxIds == 1
\* Largest number of messages in one incoming batch.
MaxBatch == 2
\* Largest number of messages a state machine emits during one call.
MaxEmit == 2
\* Largest number of round lines the native process reads.
MaxRounds == 2

(***************************************************************************)
(* State.                                                                  *)
(***************************************************************************)
VARIABLES
  \* ---- simulator (simulate.rs:25-30) ----
  n,          \* parties.len()
  queues,     \* queues[j]: inbox of party j, a sequence of Incoming records
  wants_msg,  \* wants_msg[j]: last proceed() of j was NeedsOneMoreMessage
  outputs,    \* outputs[j]: None or Some(o)
  done,       \* number of parties that returned Output
  next_id,    \* message id counter
  iter,       \* number of completed outer iterations
  i,          \* party index of the inner for loop (n: sweep finished)
  pc,         \* "idle" | "loop" | "returned"
  result,     \* value returned by run
  \* ---- the parties' side, and history of the run ----
  sends,      \* number of SendMsg results so far
  tick,       \* flips whenever a party reports internal progress (Yielded)
  ev,         \* the last outgoing message a party handed to the simulator
  enq,        \* enq[j]: every message ever appended to queues[j], in order
  dlv,        \* dlv[j]: every message handed to received_msg of j, in order
  finishLog,  \* <<party, output>> in the order the parties finished
  nat,        \* the native simulate (main.rs:29-111) run on the same parties
  \* ---- signing: the WASM session store and the native stdio process ----
  impl,       \* "wasm" (sign.rs) or "native" (main.rs): the build that runs
  sessions,   \* SESSIONS: session id -> SignSession, or NoSession
  proc,       \* the native process: where it is, and its exit code
  call,       \* the call in progress: its locals and the session it works on
  \* observations of the last step (No... when the step made none):
  ret,        \* what the WASM call that ended with the last step returned
  line,       \* the SignOutput line the native process wrote in the last step
  lastDlv,    \* the message the last step handed to received_msg
  lastEmit,   \* the message the last step put into the outgoing list
  nlines,     \* number of lines the native process has written
  \* ---- the heap objects of the WASM signing sessions (sign.rs:138-174, 250-331) ----
  created,    \* number of sessions create_session has begun to build
  heap,       \* heap[k][o]: state of object o of the k-th session built
  hstore,     \* SESSIONS: session id -> number of the session stored, 0 for none
  hcall,      \* the call in progress and the statement it is at
  \* ---- the DKG entry points (lib.rs:83-264, main.rs:136-252, 336-400, 663-790) ----
  dkg         \* the DKG call in progress, or the outcome of the last one

simVars == <<n, queues, wants_msg, outputs, done, next_id, iter, i, pc, result,
             sends, ev, enq, dlv, finishLog, nat>>

signVars == <<impl, sessions, proc, call, ret, line, lastDlv, lastEmit, nlines>>

heapVars == <<created, heap, hstore, hcall>>

vars == <<simVars, tick, signVars, heapVars, dkg>>

(***************************************************************************)
(* Values.                                                                 *)
(***************************************************************************)
None == <<>>
Some(x) == <<x>>

Parties == 0 .. (n - 1)
\* Protocol messages and party outputs are opaque to the simulator: the k-th
\* message the parties emit is the value k, and the party that finishes as the
\* k-th returns the value k, so that any two of them can be told apart.
FreshMsg == sends + 1
FreshOutput == Len(finishLog) + 1

\* round_based::Incoming as built at simulate.rs:59-64 and 70-75.
Incoming(id, sender, msg_type, msg) ==
  [id |-> id, sender |-> sender, msg_type |-> msg_type, msg |-> msg]

Running == [kind |-> "running", val |-> <<>>, err |-> "", a |-> 0, b |-> 0]
ErrResultFirstPartyMut(text, x, y) ==
  [kind |-> "Err", val |-> <<>>, err |-> text, a |-> 0, b |-> y]
ErrResult(text, x, y) == [kind |-> "Err", val |-> <<>>, err |-> text, a |-> x, b |-> y]
OkResult(v) == [kind |-> "Ok", val |-> v, err |-> "", a |-> 0, b |-> 0]
\* Index out of bounds: the process aborts, run returns nothing.
Panicked(x, y) == [kind |-> "panic", val |-> <<>>, err |-> "index out of bounds", a |-> x, b |-> y]

NoEvent == [sender |-> 0, dest |-> "none", to |-> 0, msg |-> 0]

(***************************************************************************)
(* The native simulate (main.rs:29-111), as a function from its locals and *)
(* the answer of the party it calls to its locals after the step.  It runs *)
(* beside simulate::run on the same parties: every step of run hands it    *)
(* the answer the party gave.                                              *)
(***************************************************************************)
\* What a party answers: to received_msg (recv: accepted), to proceed() (kind,
\* with the recipient, the message or the output).
Ans(recv, kind, to, msg, out) ==
  [recv |-> recv, kind |-> kind, to |-> to, msg |-> msg, out |-> out]
NoAns == Ans(TRUE, "none", 0, 0, 0)

NatIdle ==
  [n |-> 0, queues |-> <<>>, wants_msg |-> <<>>, outputs |-> <<>>, done |-> 0,
   next_id |-> 0, iter |-> 0, i |-> 0, pc |-> "idle", result |-> Running,
   call |-> "none", enq |-> <<>>, dlv |-> <<>>]
\* main.rs:34-39.
NatInit(nn) ==
  [n |-> nn, queues |-> [j \in 0 .. (nn - 1) |-> <<>>],
   wants_msg |-> [j \in 0 .. (nn - 1) |-> FALSE],
   outputs |-> [j \in 0 .. (nn - 1) |-> None], done |-> 0, next_id |-> 0,
   iter |-> 0, i |-> 0, pc |-> "loop", result |-> Running, call |-> "none",
   enq |-> [j \in 0 .. (nn - 1) |-> <<>>], dlv |-> [j \in 0 .. (nn - 1) |-> <<>>]]

\* main.rs:60-61: the inboxes a broadcast of party st.i is copied into.
NatTargetsFromOneMut(st) == {j \in 1 .. (st.n - 1) : j # st.i}
NatTargets(st) == {j \in 0 .. (st.n - 1) : j # st.i}

\* main.rs:102-110: what simulate returns once the outer loop is left.
NatFinish(st) ==
  IF st.done < st.n
    THEN ErrResult("protocol did not complete", st.done, st.n)
    ELSE IF \E k \in 0 .. (st.n - 1) : st.outputs[k] = None
           THEN ErrResult("missing output",
                          CHOOSE k \in 0 .. (st.n - 1) : st.outputs[k] = None, 0)
           ELSE OkResult([k \in 1 .. st.n |-> st.outputs[k - 1][1]])

\* main.rs:97-100: the end of a sweep over the parties.
NatEndSweep(st) ==
  IF st.done = st.n
    THEN [st EXCEPT !.pc = "returned", !.result = NatFinish(st), !.call = "none"]
    ELSE IF st.iter + 1 = OuterCap
      THEN [st EXCEPT !.iter = @ + 1, !.pc = "returned", !.result = NatFinish(st),
                      !.call = "none"]
      ELSE [st EXCEPT !.iter = @ + 1, !.i = 0, !.call = "none"]

\* main.rs:47-56: the party wants a message.
NatReceive(st, a) ==
  IF st.queues[st.i] = <<>>
    THEN [st EXCEPT !.i = @ + 1, !.call = "none"]
    ELSE LET m == Head(st.queues[st.i])
             popped == [st EXCEPT !.queues[st.i] = Tail(@), !.dlv[st.i] = Append(@, m),
                                  !.call = "received_msg"]
         IN IF a.recv
              THEN [popped EXCEPT !.wants_msg[st.i] = FALSE]
              ELSE [popped EXCEPT !.pc = "returned",
                                  !.result = ErrResult("failed to receive message", st.i, 0)]

\* main.rs:57-94: proceed() and its result.
NatProceed(st, a) ==
  LET called == [st EXCEPT !.call = "proceed"]
      T == NatTargets(st)
      copy(j) == Incoming(st.next_id + Cardinality({k \in T : k < j}), st.i,
                          "Broadcast", a.msg)
      p2p == Incoming(st.next_id, st.i, "P2P", a.msg)
  IN CASE a.kind = "Broadcast" ->
            [called EXCEPT
               !.queues = [j \in 0 .. (st.n - 1) |->
                             IF j \in T THEN Append(st.queues[j], copy(j)) ELSE st.queues[j]],
               !.enq = [j \in 0 .. (st.n - 1) |->
                          IF j \in T THEN Append(st.enq[j], copy(j)) ELSE st.enq[j]],
               !.next_id = @ + Cardinality(T)]
       [] a.kind = "P2P" ->
            IF a.to \in 0 .. (st.n - 1)
              THEN [called EXCEPT !.queues[a.to] = Append(@, p2p),
                                  !.enq[a.to] = Append(@, p2p), !.next_id = @ + 1]
              ELSE [called EXCEPT !.pc = "returned", !.result = Panicked(st.i, a.to)]
       [] a.kind = "NeedsMore" -> [called EXCEPT !.wants_msg[st.i] = TRUE]
       [] a.kind = "Output" ->
            [called EXCEPT !.outputs[st.i] = Some(a.out), !.done = @ + 1, !.i = @ + 1]
       [] a.kind = "Yielded" -> called
       [] a.kind = "Error" ->
            [called EXCEPT !.pc = "returned",
                           !.result = ErrResult("protocol error", st.i, 0)]
       [] OTHER -> called

\* main.rs:41-100: one step of the loops.
NativeSimulate(st, a) ==
  IF st.pc # "loop" THEN st
  ELSE IF st.i = st.n THEN NatEndSweep(st)
  ELSE IF st.outputs[st.i] # None THEN [st EXCEPT !.i = @ + 1, !.call = "none"]
  ELSE IF st.wants_msg[st.i] THEN NatReceive(st, a)
  ELSE NatProceed(st, a)

(***************************************************************************)
(* Values of the signing drivers.                                          *)
(***************************************************************************)
\* Keygen indices that occur on the wire and in parties_at_keygen.
KeygenIndices == 0 .. MaxIdx
Ids == 1 .. MaxIds

\* The parties_at_keygen vectors the host passes: the pairs [k, k+1] of keygen
\* indices, wrapping around (so [0,1], [1,2] and the unsorted [MaxIdx,0] are
\* among them), and the full group [0, 1, ..., MaxIdx].
Groups ==
  {<<k, (k + 1) % (MaxIdx + 1)>> : k \in KeygenIndices} \cup {[k \in 1 .. (MaxIdx + 1) |-> k - 1]}

\* WasmSignMessage (sign.rs:191-197, main.rs:416-422).
WireMsg(sender, is_broadcast, recipient, payload) ==
  [sender |-> sender, is_broadcast |-> is_broadcast, recipient |-> recipient,
   payload |-> payload]
NoWire == WireMsg(0, FALSE, None, 0)

\* Incoming payloads: 0 stands for a string that is not the base64 of a protocol
\* message, 1 for one that is.
InPayloads == {0, 1}
Decodes(payload) == payload # 0

\* The messages a host may put into a batch.
InMsgs ==
  {WireMsg(s, b, r, p) : s \in KeygenIndices, b \in BOOLEAN,
                         r \in {None} \cup {Some(k) : k \in KeygenIndices},
                         p \in InPayloads}

\* The required length of message_hash (sign.rs:256, main.rs:458).
HashLen == 32
HashLens == {HashLen - 1, HashLen}

\* Exit code of a Rust process that panics (expect / unwrap on a failure).
PanicExit == 101

\* SignSession (sign.rs:138-155); sm is what the state machine last reported:
\* "live", "finished" (Output returned) or "failed" (an error was returned).
\* i is the party position the state machine was constructed with (sign.rs:305,
\* main.rs:505).
Session(party_index, parties, party_position) ==
  [party_index |-> party_index, parties_at_keygen |-> parties,
   signature |-> None, sm |-> "live", i |-> party_position]
NoSession ==
  [party_index |-> 0, parties_at_keygen |-> <<>>, signature |-> None, sm |-> "none",
   i |-> 0]

\* The arguments of create_session (sign.rs:230-237), or the fields of the native
\* init line (main.rs:407-415); key_ok: the key share deserializes and combines.
Args(key_ok, hash_len, party_index, parties) ==
  [key_ok |-> key_ok, hash_len |-> hash_len, party_index |-> party_index,
   parties |-> parties]
NoArgs == Args(FALSE, 0, 0, <<>>)

\* args: what the call was started with.
\* drove: how the last drive_batch of the call ended ("" while none has ended
\* since the call began or since the last delivery).
\* emitted: what the state machine emitted since the call (or, in the native
\* process, the round) began: its destination and payload, in order.
IdleCall ==
  [op |-> "none", pc |-> "idle", after |-> "", id |-> 0, left |-> 0, delivered |-> 0,
   all |-> <<>>, msgs |-> <<>>, sess |-> NoSession, drove |-> "",
   emitted |-> <<>>, args |-> NoArgs]

\* args: the arguments of a create_session call that returned an error.
NoRet ==
  [op |-> "none", ok |-> TRUE, err |-> "", id |-> 0, messages |-> <<>>,
   complete |-> FALSE, signature |-> None, args |-> NoArgs, discarded |-> 0,
   replaced |-> FALSE]
\* Err(JsError): the error text and nothing else (sign.rs:353-408, `?`).
RetErrWithPartialMut(op, text) ==
  [NoRet EXCEPT !.op = op, !.ok = FALSE, !.err = text, !.messages = call.all]
RetErr(op, text) == [NoRet EXCEPT !.op = op, !.ok = FALSE, !.err = text]

NoLine == [messages |-> <<>>, complete |-> FALSE, rs |-> None]

NoDelivery ==
  [some |-> FALSE, sender |-> 0, msg_type |-> "", wire |-> NoWire,
   party_index |-> 0, parties_at_keygen |-> <<>>]
NoEmit ==
  [some |-> FALSE, wire |-> NoWire, dest |-> None, party_index |-> 0,
   parties_at_keygen |-> <<>>]

\* Iterator::position (sign.rs:286-288, 373-375; main.rs:496-498): the 0-based
\* index of the first element equal to k, or None.
PositionOf(parties, k) ==
  IF \E p \in 1 .. Len(parties) : parties[p] = k
    THEN Some((CHOOSE p \in 1 .. Len(parties) :
                 parties[p] = k /\ \A q \in 1 .. (p - 1) : parties[q] # k) - 1)
    ELSE None

\* sign.rs:381 and 119-123: is_broadcast -> msg_type byte -> MessageType.
MsgTypeByte(is_broadcast) == IF is_broadcast THEN 0 ELSE 1
MessageTypeOf(byte) == IF byte = 0 THEN "Broadcast" ELSE "P2P"

\* Largest party count, and largest number of supplied prime sets or aux-info
\* entries, handed to a DKG entry point; thresholds go one further.
MaxDkgN == 3

\* entry: the entry point called; n, threshold: its arguments; have: the number
\* of prime sets (aux-info entries) supplied to the -with-primes (-with-aux)
\* entry points; cached_n: the n field of the supplied aux-info record; built:
\* parties built so far, aux_built: the aux_info_gen parties among them;
\* driven: simulate was called; primes[i+1]: the primes party i was built with;
\* aux_infos, core_shares: the results of the two phases in the order simulate
\* returned them; shares: the shares of the output; out, err, exit: how the
\* call ended.
NoDkg ==
  [entry |-> "none", pc |-> "idle", n |-> 0, threshold |-> 0, have |-> 0,
   cached_n |-> 0, built |-> 0, aux_built |-> 0, driven |-> FALSE, primes |-> <<>>,
   aux_infos |-> <<>>, core_shares |-> <<>>, shares |-> <<>>,
   out |-> "", err |-> "", exit |-> None, phaseA |-> ""]
DkgUnused == dkg = NoDkg

\* Largest number of sessions create_session builds in one behaviour.
MaxCreates == 2

\* What a session allocates: the boxed state machine (sign.rs:310), the key share
\* (251), the prehashed scalar (265), the execution-id bytes (270-271), the
\* parties array (275-276) and the RNG (279).
Objects == {"sm", "key_share", "prehashed", "eid", "parties", "rng"}
NoObjects == [o \in Objects |-> "none"]
HIdle == [op |-> "none", pc |-> "idle", ser |-> 0, id |-> 0, drop |-> 0, at |-> 0,
          then |-> ""]

\* No session is being built or destroyed while the simulator or the message
\* loop is looked at.
HeapUnused ==
  /\ created = 0
  /\ heap = [k \in 1 .. MaxCreates |-> NoObjects]
  /\ hstore = [id \in Ids |-> 0]
  /\ hcall = HIdle

\* The signing drivers are not running while the simulator is looked at.
SignUnused ==
  /\ impl = "none"
  /\ sessions = [id \in Ids |-> NoSession]
  /\ proc = [state |-> "off", exit |-> None, args |-> NoArgs, reads |-> 0]
  /\ call = IdleCall
  /\ ret = NoRet
  /\ line = NoLine
  /\ nlines = 0
  /\ lastDlv = NoDelivery
  /\ lastEmit = NoEmit

\* The simulator is not running while the signing drivers are looked at.
SimUnused ==
  /\ n = 0
  /\ queues = <<>>
  /\ wants_msg = <<>>
  /\ outputs = <<>>
  /\ done = 0
  /\ next_id = 0
  /\ iter = 0
  /\ i = 0
  /\ pc = "idle"
  /\ result = Running
  /\ sends = 0
  /\ ev = NoEvent
  /\ enq = <<>>
  /\ dlv = <<>>
  /\ finishLog = <<>>
  /\ nat = NatIdle

(***************************************************************************)
(* Simulator: simulate::run (simulate.rs:20-116); the native simulate      *)
(* (main.rs:29-111) is the same code line by line.                         *)
(***************************************************************************)
SimInit ==
  /\ n \in 1 .. MaxN
  /\ queues = [j \in Parties |-> <<>>]
  /\ wants_msg = [j \in Parties |-> FALSE]
  /\ outputs = [j \in Parties |-> None]
  /\ done = 0
  /\ next_id = 0
  /\ iter = 0
  /\ i = 0
  /\ pc = "loop"
  /\ result = Running
  /\ sends = 0
  /\ tick = 0
  /\ ev = NoEvent
  /\ enq = [j \in Parties |-> <<>>]
  /\ dlv = [j \in Parties |-> <<>>]
  /\ finishLog = <<>>
  /\ nat = NatInit(n)
  /\ SignUnused
  /\ HeapUnused
  /\ DkgUnused

\* The party the inner loop is working on.
InParty == pc = "loop" /\ i < n /\ outputs[i] = None

\* simulate.rs:35-37: a party that already has an output is skipped.
SkipFinished ==
  /\ pc = "loop" /\ i < n /\ outputs[i] # None
  /\ i' = i + 1
  /\ UNCHANGED <<n, queues, wants_msg, outputs, done, next_id, iter, pc, result,
                 sends, tick, ev, enq, dlv, finishLog>>
  /\ nat' = NativeSimulate(nat, NoAns)
  /\ UNCHANGED <<signVars, heapVars, dkg>>

\* simulate.rs:41,47-50: the party wants a message and its inbox is empty.
BreakNoMessage ==
  /\ InParty /\ wants_msg[i] /\ queues[i] = <<>>
  /\ i' = i + 1
  /\ UNCHANGED <<n, queues, wants_msg, outputs, done, next_id, iter, pc, result,
                 sends, tick, ev, enq, dlv, finishLog>>
  /\ nat' = NativeSimulate(nat, NoAns)
  /\ UNCHANGED <<signVars, heapVars, dkg>>

\* VecDeque::pop_front (simulate.rs:42): the message taken and the rest.
PopBackMut(q) == [msg |-> q[Len(q)], rest |-> SubSeq(q, 1, Len(q) - 1)]
PopFront(q) == [msg |-> Head(q), rest |-> Tail(q)]

\* simulate.rs:46: the flag of a party whose message was accepted.
FlagAfterDeliveryKeptMut == TRUE
FlagAfterDelivery == FALSE

\* simulate.rs:41-46: pop one message and hand it to received_msg, which
\* accepts it (accepted) or rejects it.
Deliver(accepted) ==
  /\ InParty /\ wants_msg[i] /\ queues[i] # <<>>
  /\ LET p == PopFront(queues[i]) IN
       /\ queues' = [queues EXCEPT ![i] = p.rest]
       /\ dlv' = [dlv EXCEPT ![i] = Append(@, p.msg)]
  /\ IF accepted
       THEN /\ wants_msg' = [wants_msg EXCEPT ![i] = FlagAfterDelivery]
            /\ UNCHANGED <<pc, result>>
       ELSE /\ result' = ErrResult("failed to receive message", i, 0)
            /\ pc' = "returned"
            /\ UNCHANGED wants_msg
  /\ UNCHANGED <<n, outputs, done, next_id, iter, i, sends, tick, ev, enq, finishLog>>
  /\ nat' = NativeSimulate(nat, Ans(accepted, "none", 0, 0, 0))
  /\ UNCHANGED <<signVars, heapVars, dkg>>

DeliverAccepted == Deliver(TRUE)
DeliverRejected == Deliver(FALSE)

\* proceed() may be called: the party does not want a message (simulate.rs:53).
CanProceed == InParty /\ ~wants_msg[i]

\* simulate.rs:57-58: the inboxes a broadcast of party s is copied into.
BroadcastTargetsAllMut(s) == Parties
BroadcastTargets(s) == {j \in Parties : j # s}

\* simulate.rs:65, 77: `next_id += 1` after each of k placements.
IdAfterReusedMut(id, k) == id
IdAfter(id, k) == id + k

\* simulate.rs:56-68: AllParties; the copies take consecutive ids in index order.
ProceedBroadcast ==
  /\ CanProceed /\ sends < MaxSends
  /\ LET T == BroadcastTargets(i)
         m == FreshMsg
         copy(j) == Incoming(next_id + Cardinality({k \in T : k < j}), i, "Broadcast", m)
     IN /\ queues' = [j \in Parties |-> IF j \in T THEN Append(queues[j], copy(j)) ELSE queues[j]]
        /\ enq' = [j \in Parties |-> IF j \in T THEN Append(enq[j], copy(j)) ELSE enq[j]]
        /\ next_id' = IdAfter(next_id, Cardinality(T))
  /\ ev' = [sender |-> i, dest |-> "all", to |-> 0, msg |-> FreshMsg]
  /\ sends' = sends + 1
  /\ UNCHANGED <<n, wants_msg, outputs, done, iter, i, pc, result, tick, dlv, finishLog>>
  /\ nat' = NativeSimulate(nat, Ans(TRUE, "Broadcast", 0, FreshMsg, 0))
  /\ UNCHANGED <<signVars, heapVars, dkg>>

\* simulate.rs:70: `queues[dest as usize]`, the inbox of a point-to-point message.
P2PInboxNeighbourMut(dest) == (dest + 1) % n
P2PInbox(dest) == dest

\* simulate.rs:69-77: OneParty(dest); queues[dest as usize] aborts the process
\* when dest is not an index of queues.
ProceedP2P(dest) ==
  /\ CanProceed /\ sends < MaxSends
  /\ ev' = [sender |-> i, dest |-> "one", to |-> dest, msg |-> FreshMsg]
  /\ sends' = sends + 1
  /\ IF dest \in Parties
       THEN /\ queues' = [queues EXCEPT
                              ![P2PInbox(dest)] = Append(@, Incoming(next_id, i, "P2P", FreshMsg))]
            /\ enq' = [enq EXCEPT
                           ![P2PInbox(dest)] = Append(@, Incoming(next_id, i, "P2P", FreshMsg))]
            /\ next_id' = IdAfter(next_id, 1)
            /\ UNCHANGED <<pc, result>>
       ELSE /\ result' = Panicked(i, dest)
            /\ pc' = "returned"
            /\ UNCHANGED <<queues, enq, next_id>>
  /\ UNCHANGED <<n, wants_msg, outputs, done, iter, i, tick, dlv, finishLog>>
  /\ nat' = NativeSimulate(nat, Ans(TRUE, "P2P", dest, FreshMsg, 0))
  /\ UNCHANGED <<signVars, heapVars, dkg>>

\* simulate.rs:81-84: NeedsOneMoreMessage sets the flag; the inner loop goes on.
ProceedNeedsMore ==
  /\ CanProceed
  /\ wants_msg' = [wants_msg EXCEPT ![i] = TRUE]
  /\ UNCHANGED <<n, queues, outputs, done, next_id, iter, i, pc, result,
                 sends, tick, ev, enq, dlv, finishLog>>
  /\ nat' = NativeSimulate(nat, Ans(TRUE, "NeedsMore", 0, 0, 0))
  /\ UNCHANGED <<signVars, heapVars, dkg>>

\* simulate.rs:87: the finished counter.
DoneAfterOutputStuckMut(d) == d
DoneAfterOutputTwiceMut(d) == d + 2
DoneAfterOutput(d) == d + 1

\* simulate.rs:85-89: Output(o).
ProceedOutput ==
  /\ CanProceed
  /\ outputs' = [outputs EXCEPT ![i] = Some(FreshOutput)]
  /\ done' = DoneAfterOutput(done)
  /\ finishLog' = Append(finishLog, <<i, FreshOutput>>)
  /\ i' = i + 1
  /\ UNCHANGED <<n, queues, wants_msg, next_id, iter, pc, result, sends, tick, ev, enq, dlv>>
  /\ nat' = NativeSimulate(nat, Ans(TRUE, "Output", 0, 0, FreshOutput))
  /\ UNCHANGED <<signVars, heapVars, dkg>>

\* simulate.rs:90-92: Yielded; the party made internal progress.
ProceedYielded ==
  /\ CanProceed
  /\ tick' = 1 - tick
  /\ UNCHANGED <<n, queues, wants_msg, outputs, done, next_id, iter, i, pc, result,
                 sends, ev, enq, dlv, finishLog>>
  /\ nat' = NativeSimulate(nat, Ans(TRUE, "Yielded", 0, 0, 0))
  /\ UNCHANGED <<signVars, heapVars, dkg>>

\* simulate.rs:93-95: Error(e).
ProceedError ==
  /\ CanProceed
  /\ result' = ErrResult("protocol error", i, 0)
  /\ pc' = "returned"
  /\ UNCHANGED <<n, queues, wants_msg, outputs, done, next_id, iter, i,
                 sends, tick, ev, enq, dlv, finishLog>>
  /\ nat' = NativeSimulate(nat, Ans(TRUE, "Error", 0, 0, 0))
  /\ UNCHANGED <<signVars, heapVars, dkg>>

\* simulate.rs:111-115: the outputs in party-index order.
CollectInFinishOrderMut(outs, log) == [k \in 1 .. Len(log) |-> log[k][2]]
Collect(outs, log) == [k \in 1 .. n |-> outs[k - 1][1]]

\* simulate.rs:105-115: what run returns once the outer loop is left.
Finish ==
  IF done < n
    THEN ErrResult("protocol did not complete", done, n)
    ELSE IF \E k \in Parties : outputs[k] = None
           THEN ErrResult("missing output", CHOOSE k \in Parties : outputs[k] = None, 0)
           ELSE OkResult(Collect(outputs, finishLog))

\* simulate.rs:33: the outer for loop advances.
NextIterStuckMut(k) == 0
NextIter(k) == k + 1

\* simulate.rs:98-109: end of a sweep over the parties: leave the outer loop when
\* all are done or when the cap is reached, and return.
EndSweep ==
  /\ pc = "loop" /\ i = n
  /\ IF done = n
       THEN /\ pc' = "returned"
            /\ result' = Finish
            /\ UNCHANGED <<iter, i>>
       ELSE /\ iter' = NextIter(iter)
            /\ IF iter' = OuterCap
                 THEN /\ pc' = "returned"
                      /\ result' = Finish
                      /\ UNCHANGED i
                 ELSE /\ i' = 0
                      /\ UNCHANGED <<pc, result>>
  /\ UNCHANGED <<n, queues, wants_msg, outputs, done, next_id,
                 sends, tick, ev, enq, dlv, finishLog>>
  /\ nat' = NativeSimulate(nat, NoAns)
  /\ UNCHANGED <<signVars, heapVars, dkg>>

SimNext ==
  \/ SkipFinished
  \/ BreakNoMessage
  \/ DeliverAccepted
  \/ DeliverRejected
  \/ ProceedBroadcast
  \/ \E dest \in 0 .. n : ProceedP2P(dest)
  \/ ProceedNeedsMore
  \/ ProceedOutput
  \/ ProceedYielded
  \/ ProceedError
  \/ EndSweep

SimSpec == SimInit /\ [][SimNext]_vars

\* run is sequential code: it keeps executing until it returns.
FairSimSpec == SimInit /\ [][SimNext]_vars /\ WF_vars(SimNext)

(***************************************************************************)
(* Signing drivers: sign.rs (WASM session store) and main.rs (native stdio *)
(* process).  One behaviour runs one of the two builds.                    *)
(***************************************************************************)
SignInit ==
  /\ impl \in {"wasm", "native"}
  /\ sessions = [id \in Ids |-> NoSession]
  /\ proc = [state |-> IF impl = "native" THEN "start" ELSE "off", exit |-> None,
             args |-> NoArgs, reads |-> 0]
  /\ call = IdleCall
  /\ ret = NoRet
  /\ line = NoLine
  /\ nlines = 0
  /\ lastDlv = NoDelivery
  /\ lastEmit = NoEmit
  /\ tick = 0
  /\ SimUnused
  /\ HeapUnused
  /\ DkgUnused

\* What a step that returns nothing, writes nothing, delivers nothing and
\* emits nothing leaves in the observation variables.
Silent == ret' = NoRet /\ line' = NoLine /\ lastDlv' = NoDelivery /\ lastEmit' = NoEmit
\* The same for a step that only returns from a WASM call (ret' is set by it).
OnlyReturns == line' = NoLine /\ lastDlv' = NoDelivery /\ lastEmit' = NoEmit

\* The session the call in progress works on: the stored one in process_round
\* (sign.rs:349-351), the local one in create_session (sign.rs:312) and in the
\* native process (main.rs:512).
CurSession == IF call.op = "round" THEN sessions[call.id] ELSE call.sess

\* The call goes on with locals c and its session in state s.
GoOn(c, s) ==
  IF call.op = "round"
    THEN /\ call' = c
         /\ sessions' = [sessions EXCEPT ![call.id] = s]
    ELSE /\ call' = [c EXCEPT !.sess = s]
         /\ UNCHANGED sessions

\* A WASM call returns Err(text): `?` in create_session drops the local session
\* and the outgoing messages collected so far (discarded counts them)
\* (sign.rs:323), in process_round the session stays in the store (sign.rs:347-409).
FailCall(text, s) ==
  /\ ret' = [RetErr(call.op, text) EXCEPT !.discarded = Len(call.all) + Len(call.msgs)]
  /\ call' = IdleCall
  /\ IF call.op = "round"
       THEN sessions' = [sessions EXCEPT ![call.id] = s]
       ELSE UNCHANGED sessions

\* The native process ends with exit code `code`.
Exit(code) ==
  /\ proc' = [proc EXCEPT !.state = "exited", !.exit = Some(code)]
  /\ call' = IdleCall

\* The position handed to cggmp24::signing (sign.rs:286-300, main.rs:496-502).
PartyPositionIsIndexMut(parties, party_index) ==
  IF PositionOf(parties, party_index) = None THEN None ELSE Some(party_index)
PartyPosition(parties, party_index) == PositionOf(parties, party_index)

\* ---- create_session (sign.rs:230-337) ----
CreateSession(key_ok, hash_len, party_index, parties) ==
  /\ impl = "wasm" /\ call.pc = "idle"
  /\ LET args == Args(key_ok, hash_len, party_index, parties)
         Fails(text) == /\ ret' = [RetErr("create", text) EXCEPT !.args = args]
                        /\ UNCHANGED call
     IN IF ~key_ok
          THEN Fails("deserialize key share")
          ELSE IF hash_len # HashLen
            THEN Fails("message_hash must be 32 bytes")
            ELSE IF PartyPosition(parties, party_index) = None
              THEN Fails("party_index not found in parties")
              ELSE /\ call' = [IdleCall EXCEPT
                                 !.op = "create", !.pc = "drive", !.after = "create",
                                 !.args = args,
                                 !.sess = Session(party_index, parties,
                                                  PartyPosition(parties, party_index)[1])]
                   /\ ret' = NoRet
  /\ OnlyReturns
  /\ UNCHANGED <<impl, sessions, proc, nlines, tick, simVars, heapVars, dkg>>

\* ---- process_round (sign.rs:343-410) ----
\* sign.rs:347-354: look the session up.
ProcessRound(id, len) ==
  /\ impl = "wasm" /\ call.pc = "idle"
  /\ IF sessions[id] = NoSession
       THEN /\ ret' = RetErr("round", "no sign session found")
            /\ UNCHANGED call
       ELSE /\ call' = [IdleCall EXCEPT !.op = "round", !.pc = "msgs", !.id = id,
                                        !.left = len]
            /\ ret' = NoRet
  /\ OnlyReturns
  /\ UNCHANGED <<impl, sessions, proc, nlines, tick, simVars, heapVars, dkg>>

\* sign.rs:364-370: a point-to-point message addressed to another party.
NotForUsNeverMut(party_index, m) == FALSE
NotForUs(party_index, m) ==
  ~m.is_broadcast /\ m.recipient # None /\ m.recipient[1] # party_index

AtMsg(build) == impl = build /\ call.pc = "msgs" /\ call.left > 0

\* Where a round goes after a delivery: into drive_batch (sign.rs:391, main.rs:636).
AfterDeliverySkipsDriveMut == "msgs"
AfterDelivery == "drive"

\* The envelope fields the filter and the sender lookup of process_round read
\* (sign.rs:364-374), kept for a message that is not handed over.
Seen(m, s) ==
  [NoDelivery EXCEPT !.wire = [m EXCEPT !.payload = 0], !.party_index = s.party_index,
                     !.parties_at_keygen = s.parties_at_keygen]

\* sign.rs:362-370: the message is skipped.
WasmSkip(m) ==
  /\ AtMsg("wasm")
  /\ NotForUs(CurSession.party_index, m)
  /\ call' = [call EXCEPT !.left = @ - 1]
  /\ ret' = NoRet /\ line' = NoLine /\ lastEmit' = NoEmit
  /\ lastDlv' = Seen(m, CurSession)
  /\ UNCHANGED <<impl, sessions, proc, nlines, tick, simVars, heapVars, dkg>>

\* sign.rs:372-379: the sender is not in parties_at_keygen.
WasmUnknownSender(m) ==
  /\ AtMsg("wasm")
  /\ ~NotForUs(CurSession.party_index, m)
  /\ PositionOf(CurSession.parties_at_keygen, m.sender) = None
  /\ FailCall("unknown sender", CurSession)
  /\ line' = NoLine /\ lastEmit' = NoEmit
  /\ lastDlv' = Seen(m, CurSession)
  /\ UNCHANGED <<impl, proc, nlines, tick, simVars, heapVars, dkg>>

\* sign.rs:384-386 with 107-114: receive_msg cannot decode the payload.
WasmUndecodable(m) ==
  /\ AtMsg("wasm")
  /\ ~NotForUs(CurSession.party_index, m)
  /\ PositionOf(CurSession.parties_at_keygen, m.sender) # None
  /\ ~Decodes(m.payload)
  /\ FailCall("decode incoming msg", CurSession)
  /\ OnlyReturns
  /\ UNCHANGED <<impl, proc, nlines, tick, simVars, heapVars, dkg>>

\* What received_msg of the state machine was called with.
Delivery(sender, msg_type, m, s) ==
  [some |-> TRUE, sender |-> sender, msg_type |-> msg_type, wire |-> m,
   party_index |-> s.party_index, parties_at_keygen |-> s.parties_at_keygen]

\* sign.rs:372-391 with 116-129: the message is handed to the state machine,
\* which accepts or rejects it.
WasmDeliver(m, accepted) ==
  /\ AtMsg("wasm")
  /\ ~NotForUs(CurSession.party_index, m)
  /\ PositionOf(CurSession.parties_at_keygen, m.sender) # None
  /\ Decodes(m.payload)
  /\ lastDlv' = Delivery(PositionOf(CurSession.parties_at_keygen, m.sender)[1],
                         MessageTypeOf(MsgTypeByte(m.is_broadcast)), m, CurSession)
  /\ IF accepted
       THEN /\ GoOn([call EXCEPT !.left = @ - 1, !.delivered = @ + 1,
                                 !.pc = AfterDelivery, !.after = "msg",
                                 !.drove = ""], CurSession)
            /\ ret' = NoRet
       ELSE FailCall("failed to deliver message to state machine",
                     [CurSession EXCEPT !.sm = "failed"])
  /\ line' = NoLine /\ lastEmit' = NoEmit
  /\ UNCHANGED <<impl, proc, nlines, tick, simVars, heapVars, dkg>>

\* ProcessRoundResult (sign.rs:401-408).
RoundResult(all, s) ==
  [NoRet EXCEPT !.op = "round", !.id = call.id, !.messages = all,
                !.complete = (s.signature # None), !.signature = s.signature]

\* sign.rs:395-408: the batch is through; drive once when nothing was delivered.
WasmEndBatch ==
  /\ impl = "wasm" /\ call.pc = "msgs" /\ call.left = 0
  /\ IF call.delivered = 0
       THEN /\ call' = [call EXCEPT !.pc = "drive", !.after = "tail"]
            /\ ret' = NoRet
       ELSE /\ ret' = RoundResult(call.all, CurSession)
            /\ call' = IdleCall
  /\ OnlyReturns
  /\ UNCHANGED <<impl, sessions, proc, nlines, tick, simVars, heapVars, dkg>>

\* ---- destroy_session (sign.rs:413-415) ----
\* HashMap::remove (sign.rs:414).
RemoveKeepsMut(store, id) == store
RemoveAllMut(store, id) == [k \in DOMAIN store |-> NoSession]
Remove(store, id) == [store EXCEPT ![id] = NoSession]

DestroySession(id) ==
  /\ impl = "wasm" /\ call.pc = "idle"
  /\ ret' = [NoRet EXCEPT !.op = "destroy", !.id = id, !.ok = (sessions[id] # NoSession)]
  /\ sessions' = Remove(sessions, id)
  /\ OnlyReturns
  /\ UNCHANGED <<impl, proc, call, nlines, tick, simVars, heapVars, dkg>>

\* all_outgoing.extend(batch) (sign.rs:392, 398).
ExtendInFrontMut(all, batch) == batch \o all
Extend(all, batch) == all \o batch

\* ---- drive_batch (sign.rs:423-448; main.rs:535-580) ----
Driving == call.pc = "drive"
Emitted == Len(call.all) + Len(call.msgs)

\* mpc_msg_to_wasm (sign.rs:455-470) on the MpcMessage built by drive_one
\* (sign.rs:74-85): dest is None for AllParties and Some(p) for OneParty(p).
MpcMsgToWasm(sender, dest, payload, parties) ==
  IF dest = None
    THEN WireMsg(sender, TRUE, None, payload)
    ELSE WireMsg(sender, FALSE,
                 Some(IF dest[1] < Len(parties) THEN parties[dest[1] + 1] ELSE dest[1]),
                 payload)

\* main.rs:553-562: the WasmSignMessage the native drive_batch pushes.
NativeOutMsg(sender, dest, payload, parties) ==
  IF dest = None
    THEN WireMsg(sender, TRUE, None, payload)
    ELSE WireMsg(sender, FALSE, dest, payload)

\* MessageDestination values a state machine for `parties` may return: AllParties,
\* or OneParty(p) for a u16 p; positions up to one past the group are looked at.
Dests(parties) == {None} \cup {Some(p) : p \in 0 .. Len(parties)}
AllDests == {None} \cup {Some(p) : p \in 0 .. (MaxIdx + 1)}

\* SendMsg: the message is pushed to the outgoing list (the k-th message emitted
\* during a call carries payload k).
DriveSend(dest) ==
  /\ Driving /\ Emitted < MaxEmit
  /\ dest \in Dests(CurSession.parties_at_keygen)
  /\ LET s == CurSession
         w == IF impl = "wasm"
                THEN MpcMsgToWasm(s.party_index, dest, Emitted + 1, s.parties_at_keygen)
                ELSE NativeOutMsg(s.party_index, dest, Emitted + 1, s.parties_at_keygen)
     IN /\ lastEmit' = [some |-> TRUE, wire |-> w, dest |-> dest,
                        party_index |-> s.party_index,
                        parties_at_keygen |-> s.parties_at_keygen]
        /\ GoOn(IF impl = "wasm"
                  THEN [call EXCEPT !.msgs = Append(@, w),
                                    !.emitted = Append(@, [dest |-> dest, payload |-> w.payload])]
                  ELSE [call EXCEPT !.all = Append(@, w),
                                    !.emitted = Append(@, [dest |-> dest, payload |-> w.payload])],
                s)
  /\ ret' = NoRet /\ line' = NoLine /\ lastDlv' = NoDelivery
  /\ UNCHANGED <<impl, proc, nlines, tick, simVars, heapVars, dkg>>

\* Yielded: keep driving.
DriveYielded ==
  /\ Driving
  /\ Silent
  /\ UNCHANGED <<impl, sessions, proc, call, nlines, tick, simVars, heapVars, dkg>>

\* SignOutput (main.rs:587-592, 643-648).
OutLineNeverCompleteMut(all, s) == [messages |-> all, complete |-> FALSE, rs |-> s.signature]
OutLine(all, s) == [messages |-> all, complete |-> (s.signature # None), rs |-> s.signature]

\* drive_batch returns normally, leaving the session in state s, and the caller
\* goes on.  create_session takes whatever id uuid_v4 makes of 16 random bytes
\* (sign.rs:326, 473-489) and HashMap::insert puts the session under it, in
\* place of a session already there (sign.rs:329-331; ret.replaced notes it).
\* The callers:
\* goes on: create_session (sign.rs:325-336), process_round (sign.rs:391-392,
\* 397-408), run_sign_loop (main.rs:584-599, 636-655).
DriveReturns(s, how) ==
  IF impl = "wasm"
    THEN /\ line' = NoLine
         /\ UNCHANGED <<proc, nlines>>
         /\ IF call.after = "create"
              THEN /\ \E id \in DOMAIN sessions : /\ sessions' = [sessions EXCEPT ![id] = s]
                                      /\ ret' = [NoRet EXCEPT !.op = "create", !.id = id,
                                            !.messages = call.msgs,
                                            !.replaced = (sessions[id] # NoSession)]
                   /\ call' = IdleCall
              ELSE IF call.after = "msg"
                THEN /\ GoOn([call EXCEPT !.all = Extend(@, call.msgs), !.msgs = <<>>,
                                          !.pc = "msgs", !.drove = how], s)
                     /\ ret' = NoRet
                ELSE /\ ret' = RoundResult(Extend(call.all, call.msgs), s)
                     /\ call' = IdleCall
                     /\ sessions' = [sessions EXCEPT ![call.id] = s]
    ELSE /\ ret' = NoRet
         /\ UNCHANGED sessions
         /\ IF call.after = "init" \/ s.signature # None
              THEN /\ line' = OutLine(call.all, s)
                   /\ nlines' = nlines + 1
                   /\ IF s.signature # None
                        THEN Exit(0)
                        ELSE /\ call' = [call EXCEPT !.pc = "wait", !.all = <<>>, !.sess = s,
                                                  !.emitted = <<>>]
                             /\ UNCHANGED proc
              ELSE /\ call' = [call EXCEPT !.pc = "msgs", !.sess = s, !.drove = how]
                   /\ line' = NoLine
                   /\ UNCHANGED <<proc, nlines>>

\* NeedsOneMoreMessage: stop driving.
DriveNeedsInput ==
  /\ Driving
  /\ DriveReturns(CurSession, "NeedsInput")
  /\ lastDlv' = NoDelivery /\ lastEmit' = NoEmit
  /\ UNCHANGED <<impl, tick, simVars, heapVars, dkg>>

\* Output(Ok(signature)): the signature is kept and driving stops.
DriveFinished ==
  /\ Driving
  /\ DriveReturns([CurSession EXCEPT !.signature = Some("sig"), !.sm = "finished"], "Finished")
  /\ lastDlv' = NoDelivery /\ lastEmit' = NoEmit
  /\ UNCHANGED <<impl, tick, simVars, heapVars, dkg>>

\* Output(Err(e)): sign.rs:90 returns an error, main.rs:566 panics.
DriveOutputErr ==
  /\ Driving
  /\ IF impl = "wasm"
       THEN /\ FailCall("signing protocol error", [CurSession EXCEPT !.sm = "finished"])
            /\ UNCHANGED proc
       ELSE /\ Exit(PanicExit)
            /\ ret' = NoRet
            /\ UNCHANGED sessions
  /\ OnlyReturns
  /\ UNCHANGED <<impl, nlines, tick, simVars, heapVars, dkg>>

\* Error(e): sign.rs:103 returns an error, main.rs:574-577 exits with 1.
DriveError ==
  /\ Driving
  /\ IF impl = "wasm"
       THEN /\ FailCall("protocol error", [CurSession EXCEPT !.sm = "failed"])
            /\ UNCHANGED proc
       ELSE /\ Exit(1)
            /\ ret' = NoRet
            /\ UNCHANGED sessions
  /\ OnlyReturns
  /\ UNCHANGED <<impl, nlines, tick, simVars, heapVars, dkg>>

\* ---- run_interactive_sign (main.rs:438-515) ----
NativeInit(parse_ok, hash_len, key_ok, party_index, parties) ==
  /\ impl = "native" /\ proc.state = "start"
  /\ LET args == Args(key_ok, hash_len, party_index, parties)
         ExitAtInit(code) ==
           /\ proc' = [state |-> "exited", exit |-> Some(code), args |-> args,
                       reads |-> 0]
           /\ call' = IdleCall
     IN IF ~parse_ok
          THEN Exit(PanicExit)
          ELSE IF hash_len # HashLen
            THEN ExitAtInit(1)
            ELSE IF ~key_ok \/ PartyPosition(parties, party_index) = None
              THEN ExitAtInit(PanicExit)
              ELSE /\ call' = [IdleCall EXCEPT
                                 !.op = "native", !.pc = "drive", !.after = "init",
                                 !.args = args,
                                 !.sess = Session(party_index, parties,
                                                  PartyPosition(parties, party_index)[1])]
                   /\ proc' = [proc EXCEPT !.state = "run"]
  /\ Silent
  /\ UNCHANGED <<impl, sessions, nlines, tick, simVars, heapVars, dkg>>

\* ---- run_sign_loop, round loop (main.rs:602-656) ----
\* main.rs:603-608: read and parse one line (proc.reads counts the lines read).
NativeReadLine(line_ok, len) ==
  /\ impl = "native" /\ call.pc = "wait" /\ nlines <= MaxRounds
  /\ IF line_ok
       THEN /\ call' = [call EXCEPT !.pc = "msgs", !.left = len, !.all = <<>>,
                                    !.emitted = <<>>]
            /\ proc' = [proc EXCEPT !.reads = @ + 1]
       ELSE /\ proc' = [proc EXCEPT !.state = "exited", !.exit = Some(PanicExit),
                                    !.reads = @ + 1]
            /\ call' = IdleCall
  /\ Silent
  /\ UNCHANGED <<impl, sessions, nlines, tick, simVars, heapVars, dkg>>

\* main.rs:612-616: the payload does not decode.
NativeUndecodable(m) ==
  /\ AtMsg("native")
  /\ ~Decodes(m.payload)
  /\ Exit(PanicExit)
  /\ Silent
  /\ UNCHANGED <<impl, sessions, nlines, tick, simVars, heapVars, dkg>>

\* main.rs:618-636: the message is handed to the state machine.
NativeDeliver(m, accepted) ==
  /\ AtMsg("native")
  /\ Decodes(m.payload)
  /\ lastDlv' = Delivery(m.sender, IF m.is_broadcast THEN "Broadcast" ELSE "P2P",
                         m, CurSession)
  /\ IF accepted
       THEN /\ call' = [call EXCEPT !.left = @ - 1, !.delivered = @ + 1,
                                    !.pc = AfterDelivery, !.after = "msg",
                                    !.drove = ""]
            /\ UNCHANGED proc
       ELSE Exit(1)
  /\ ret' = NoRet /\ line' = NoLine /\ lastEmit' = NoEmit
  /\ UNCHANGED <<impl, sessions, nlines, tick, simVars, heapVars, dkg>>

\* main.rs:642-655: the batch is through without a signature: write the line.
NativeEndBatch ==
  /\ impl = "native" /\ call.pc = "msgs" /\ call.left = 0
  /\ line' = OutLine(call.all, CurSession)
  /\ nlines' = nlines + 1
  /\ call' = [call EXCEPT !.pc = "wait", !.all = <<>>, !.emitted = <<>>]
  /\ ret' = NoRet /\ lastDlv' = NoDelivery /\ lastEmit' = NoEmit
  /\ UNCHANGED <<impl, sessions, proc, tick, simVars, heapVars, dkg>>

SignNext ==
  \/ \E key_ok \in BOOLEAN, hash_len \in HashLens, party_index \in KeygenIndices,
        parties \in Groups : CreateSession(key_ok, hash_len, party_index, parties)
  \/ \E id \in Ids, len \in 0 .. MaxBatch : ProcessRound(id, len)
  \/ \E m \in InMsgs : WasmSkip(m)
  \/ \E m \in InMsgs : WasmUnknownSender(m)
  \/ \E m \in InMsgs : WasmUndecodable(m)
  \/ \E m \in InMsgs, accepted \in BOOLEAN : WasmDeliver(m, accepted)
  \/ WasmEndBatch
  \/ \E id \in Ids : DestroySession(id)
  \/ \E dest \in AllDests : DriveSend(dest)
  \/ DriveYielded
  \/ DriveNeedsInput
  \/ DriveFinished
  \/ DriveOutputErr
  \/ DriveError
  \/ \E parse_ok \in BOOLEAN, hash_len \in HashLens, key_ok \in BOOLEAN,
        party_index \in KeygenIndices, parties \in Groups :
          NativeInit(parse_ok, hash_len, key_ok, party_index, parties)
  \/ \E line_ok \in BOOLEAN, len \in 0 .. MaxBatch : NativeReadLine(line_ok, len)
  \/ \E m \in InMsgs : NativeUndecodable(m)
  \/ \E m \in InMsgs, accepted \in BOOLEAN : NativeDeliver(m, accepted)
  \/ NativeEndBatch

SignSpec == SignInit /\ [][SignNext]_vars

(***************************************************************************)
(* The WASM session store with room for more than one session: the same    *)
(* exported functions as above (sign.rs:230-415), called by a host that     *)
(* signs as party 0 of the group [0, 1] and keeps several sessions at once. *)
(***************************************************************************)
StoreIds == 1 .. (MaxIds + 1)
\* The batches of this host hold messages from party 1 and from the keygen
\* index MaxIdx, which is outside the group, with a payload that decodes.
StoreMsgs ==
  {WireMsg(sender, b, r, 1) : sender \in {1, MaxIdx}, b \in BOOLEAN, r \in {None, Some(1)}}

StoreInit ==
  /\ impl = "wasm"
  /\ sessions = [id \in StoreIds |-> NoSession]
  /\ proc = [state |-> "off", exit |-> None, args |-> NoArgs, reads |-> 0]
  /\ call = IdleCall
  /\ ret = NoRet
  /\ line = NoLine
  /\ nlines = 0
  /\ lastDlv = NoDelivery
  /\ lastEmit = NoEmit
  /\ tick = 0
  /\ SimUnused
  /\ HeapUnused
  /\ DkgUnused

StoreNext ==
  \/ \E key_ok \in BOOLEAN : CreateSession(key_ok, HashLen, 0, <<0, 1>>)
  \/ \E id \in StoreIds, len \in 0 .. 1 : ProcessRound(id, len)
  \/ \E m \in StoreMsgs : WasmSkip(m)
  \/ \E m \in StoreMsgs : WasmUnknownSender(m)
  \/ \E m \in StoreMsgs, accepted \in BOOLEAN : WasmDeliver(m, accepted)
  \/ WasmEndBatch
  \/ \E id \in StoreIds : DestroySession(id)
  \/ \E dest \in {None, Some(1)} : DriveSend(dest)
  \/ DriveYielded
  \/ DriveNeedsInput
  \/ DriveFinished
  \/ DriveOutputErr
  \/ DriveError

StoreSpec == StoreInit /\ [][StoreNext]_vars

(***************************************************************************)
(* The heap objects of a WASM signing session: create_session, Drop for    *)
(* SignSession and destroy_session, statement by statement (sign.rs).      *)
(***************************************************************************)
HeapInit ==
  /\ HeapUnused
  /\ DkgUnused
  /\ SimUnused
  /\ SignUnused
  /\ tick = 0

Alloc(k, o) == heap' = [heap EXCEPT ![k][o] = "live"]
Free(k, os) == heap' = [heap EXCEPT ![k] = [o \in Objects |-> IF o \in os THEN "freed" ELSE @[o]]]
AtStmt(p) == hcall.op = "create" /\ hcall.pc = p

\* Drop for SignSession (sign.rs:157-174): the order in which it releases.
DropOrderKeyFirstMut == <<"key_share", "sm", "rng", "prehashed">>
DropOrder == <<"sm", "key_share", "rng", "prehashed">>

\* The session numbered k goes out of scope: its Drop runs next.
StartDrop(k) == hcall' = [hcall EXCEPT !.pc = "drop", !.drop = k, !.at = 1]

\* sign.rs:239-253: deserialize and combine the key share, box it.
HKeyShare(key_ok) ==
  /\ hcall.pc = "idle" /\ created < MaxCreates
  /\ IF key_ok
       THEN /\ created' = created + 1
            /\ Alloc(created + 1, "key_share")
            /\ hcall' = [HIdle EXCEPT !.op = "create", !.pc = "hash", !.ser = created + 1]
       ELSE UNCHANGED <<created, heap, hcall>>
  /\ UNCHANGED <<hstore, tick, simVars, signVars, dkg>>

\* sign.rs:256-267: check the hash length, box the prehashed scalar.
HHash(hash_len) ==
  /\ AtStmt("hash")
  /\ IF hash_len # HashLen
       THEN /\ Free(hcall.ser, {"key_share"})
            /\ hcall' = HIdle
       ELSE /\ Alloc(hcall.ser, "prehashed")
            /\ hcall' = [hcall EXCEPT !.pc = "eid"]
  /\ UNCHANGED <<created, hstore, tick, simVars, signVars, dkg>>

\* sign.rs:270-272: Box::leak of the execution-id bytes.
HEid ==
  /\ AtStmt("eid")
  /\ Alloc(hcall.ser, "eid")
  /\ hcall' = [hcall EXCEPT !.pc = "parties"]
  /\ UNCHANGED <<created, hstore, tick, simVars, signVars, dkg>>

\* sign.rs:275-276: Box::leak of the parties array.
HParties ==
  /\ AtStmt("parties")
  /\ Alloc(hcall.ser, "parties")
  /\ hcall' = [hcall EXCEPT !.pc = "rng"]
  /\ UNCHANGED <<created, hstore, tick, simVars, signVars, dkg>>

\* sign.rs:279-280: box the RNG.
HRng ==
  /\ AtStmt("rng")
  /\ Alloc(hcall.ser, "rng")
  /\ hcall' = [hcall EXCEPT !.pc = "position"]
  /\ UNCHANGED <<created, hstore, tick, simVars, signVars, dkg>>

\* sign.rs:286-300: look party_index up; clean up when it is not found.
HPosition(found) ==
  /\ AtStmt("position")
  /\ IF found
       THEN /\ hcall' = [hcall EXCEPT !.pc = "construct"]
            /\ UNCHANGED heap
       ELSE /\ Free(hcall.ser, {"key_share", "prehashed", "rng"})
            /\ hcall' = HIdle
  /\ UNCHANGED <<created, hstore, tick, simVars, signVars, dkg>>

\* sign.rs:305-320: build the state machine, box it, build the SignSession.
HConstruct ==
  /\ AtStmt("construct")
  /\ Alloc(hcall.ser, "sm")
  /\ hcall' = [hcall EXCEPT !.pc = "drive"]
  /\ UNCHANGED <<created, hstore, tick, simVars, signVars, dkg>>

\* sign.rs:323: the initial drive_batch; on Err the local session is dropped.
HDrive(ok) ==
  /\ AtStmt("drive")
  /\ IF ok THEN hcall' = [hcall EXCEPT !.pc = "insert"]
           ELSE StartDrop(hcall.ser)
  /\ UNCHANGED <<created, heap, hstore, tick, simVars, signVars, dkg>>

\* sign.rs:326-331: insert under the generated id; a session already stored
\* under that id is replaced and dropped.
HInsert(id) ==
  /\ AtStmt("insert")
  /\ hstore' = [hstore EXCEPT ![id] = hcall.ser]
  /\ IF hstore[id] # 0 THEN StartDrop(hstore[id]) ELSE hcall' = HIdle
  /\ UNCHANGED <<created, heap, tick, simVars, signVars, dkg>>

\* destroy_session (sign.rs:413-415): the removed session is dropped.
HDestroy(id) ==
  /\ hcall.pc = "idle"
  /\ hstore' = [hstore EXCEPT ![id] = 0]
  /\ IF hstore[id] # 0
       THEN hcall' = [HIdle EXCEPT !.op = "destroy", !.pc = "drop", !.drop = hstore[id],
                                   !.at = 1, !.id = id]
       ELSE UNCHANGED hcall
  /\ UNCHANGED <<created, heap, tick, simVars, signVars, dkg>>

\* One statement of Drop for SignSession (sign.rs:158-173).
HDrop ==
  /\ hcall.pc = "drop"
  /\ Free(hcall.drop, {DropOrder[hcall.at]})
  /\ hcall' = IF hcall.at = Len(DropOrder) THEN HIdle ELSE [hcall EXCEPT !.at = @ + 1]
  /\ UNCHANGED <<created, hstore, tick, simVars, signVars, dkg>>

HeapNext ==
  \/ \E key_ok \in BOOLEAN : HKeyShare(key_ok)
  \/ \E hash_len \in HashLens : HHash(hash_len)
  \/ HEid
  \/ HParties
  \/ HRng
  \/ \E found \in BOOLEAN : HPosition(found)
  \/ HConstruct
  \/ \E ok \in BOOLEAN : HDrive(ok)
  \/ \E id \in Ids : HInsert(id)
  \/ \E id \in Ids : HDestroy(id)
  \/ HDrop

HeapSpec == HeapInit /\ [][HeapNext]_vars

(***************************************************************************)
(* The DKG entry points: run_dkg and run_dkg_with_primes of the WASM       *)
(* module (lib.rs) and the dkg, dkg-with-primes and dkg-with-aux commands  *)
(* of the native program (main.rs).  What simulate::run does with the      *)
(* parties is the simulator above; here its result is one of the results   *)
(* it can return.                                                          *)
(***************************************************************************)
WasmEntries == {"run_dkg", "run_dkg_with_primes"}
NativeEntries == {"dkg", "dkg-with-primes", "dkg-with-aux"}
Entries == WasmEntries \cup NativeEntries

DkgInit ==
  /\ DkgUnused
  /\ HeapUnused
  /\ SimUnused
  /\ SignUnused
  /\ tick = 0

\* The call ends: Err(text) / exit code 1 (lib.rs: JsError; main.rs:678-681,
\* 711-714, 773-776), a panic, or the output.
DkgEnds(d, out, text) ==
  dkg' = [d EXCEPT !.pc = "idle", !.out = out, !.err = text,
                   !.exit = IF d.entry \in WasmEntries THEN None
                            ELSE IF out = "Ok" THEN Some(0)
                            ELSE IF out = "Err" THEN Some(1) ELSE Some(PanicExit)]

\* lib.rs:84-91 and 188-195: the argument checks of the WASM entry points.
\* The native commands have none (main.rs:136-171, 336-345).
ValidationError(entry, nn, threshold) ==
  IF entry \in WasmEntries /\ nn < 2 THEN "n must be at least 2"
  ELSE IF entry \in WasmEntries /\ (threshold < 2 \/ threshold > nn)
    THEN "threshold must be in [2, n]"
  ELSE ""

\* Which entry points are given prime sets or aux-info entries, and the check
\* of their number (lib.rs:200-206, main.rs:154-156, 342-344).
TakesSets(entry) == entry \in {"run_dkg_with_primes", "dkg-with-primes", "dkg-with-aux"}

\* The i-th blob or entry the caller supplied (counted from 0), as supplied, and the
\* value it decodes to.
Supplied(ix) == [enc |-> "supplied", of |-> <<"given", ix>>]
Decoded(blob) == blob.of
\* A value serialized for the output: serde_json bytes in the WASM module
\* (lib.rs:153-156), base64 of them in the native program (main.rs:234-241).
Ser(entry, v) ==
  [enc |-> IF entry \in WasmEntries THEN "json" ELSE "base64(json)", of |-> v]

\* The results simulate::run returns for nn parties of a phase: the output of
\* party k at index k (simulate.rs:111-115).
SimResults(phase, nn) == [k \in 1 .. nn |-> <<phase, k - 1>>]

\* The primes party i of phase A is built with: the i-th supplied blob
\* (lib.rs:211-214, main.rs:158-163 with 179-181), or freshly generated ones
\* (lib.rs:97-98, main.rs:139-144).
PrimesForFromEndMut(d, ix) ==
  IF d.entry \in {"run_dkg_with_primes", "dkg-with-primes"}
    THEN Decoded(Supplied(d.have - 1 - ix)) ELSE <<"generated", ix>>
PrimesFor(d, ix) ==
  IF d.entry \in {"run_dkg_with_primes", "dkg-with-primes"}
    THEN Decoded(Supplied(ix)) ELSE <<"generated", ix>>

\* An entry point is called with n, threshold and `have` sets; sets_ok: the
\* supplied array / lines / JSON decode (lib.rs:198-199, main.rs:158-163, 340-352);
\* cached_n: the n field of the aux-info record given to dkg-with-aux.
DkgCall(entry, nn, threshold, have, cached_n, sets_ok) ==
  /\ dkg.pc = "idle"
  /\ TakesSets(entry) \/ (have = 0 /\ sets_ok)
  /\ entry = "dkg-with-aux" \/ cached_n = 0
  /\ LET d == [NoDkg EXCEPT !.entry = entry, !.n = nn, !.threshold = threshold,
                            !.have = have, !.cached_n = cached_n]
     IN IF ValidationError(entry, nn, threshold) # ""
          THEN DkgEnds(d, "Err", ValidationError(entry, nn, threshold))
          ELSE IF TakesSets(entry) /\ have < nn
            THEN DkgEnds(d, "Err", "not enough sets")
            ELSE IF entry = "dkg-with-aux" /\ cached_n < nn
              THEN DkgEnds(d, "Err", "not enough sets")
              ELSE IF entry # "run_dkg_with_primes" /\ ~sets_ok
                THEN DkgEnds(d, "Err", "decode")
                ELSE IF entry = "dkg-with-aux"
                  THEN dkg' = [d EXCEPT !.pc = "buildB",
                                        !.aux_infos = [k \in 1 .. nn |-> Decoded(Supplied(k - 1))]]
                  ELSE dkg' = [d EXCEPT !.pc = "buildA"]
  /\ UNCHANGED <<tick, simVars, signVars, heapVars>>

\* Phase A: one aux_info_gen party per index 0..n-1 (lib.rs:95-108, 209-224,
\* main.rs:179-191).  run_dkg_with_primes deserializes the primes of party k
\* inside the loop and returns on a failure, k parties being built.
DkgBuildAux(k, sets_ok) ==
  /\ dkg.pc = "buildA"
  /\ LET d == [dkg EXCEPT !.built = @ + k, !.aux_built = @ + k,
                          !.primes = [j \in 1 .. k |-> PrimesFor(dkg, j - 1)]]
     IN IF dkg.entry = "run_dkg_with_primes" /\ ~sets_ok
          THEN /\ k < dkg.n
               /\ DkgEnds(d, "Err", "deserialize primes")
          ELSE /\ k = dkg.n
               /\ dkg' = [d EXCEPT !.pc = "simA"]
  /\ UNCHANGED <<tick, simVars, signVars, heapVars>>

\* What simulate::run, and the per-party results, can come to: with no party
\* the run returns Ok(empty) at once (simulate.rs:100-115).
SimOutcomes(nn) == IF nn = 0 THEN {"Ok"} ELSE {"Ok", "SimErr", "PartyErr"}

\* lib.rs:110-118, 226-234, main.rs:193-198: `?` on the result of the run and on
\* each party's result: does phase A end the call.
PhaseAEndsOnSimErrOnlyMut(outcome) == outcome = "SimErr"
PhaseAEnds(outcome) == outcome # "Ok"

\* lib.rs:110-118, 226-234, main.rs:193-198: run phase A (phaseA keeps how it
\* came out).
DkgRunAux(outcome) ==
  /\ dkg.pc = "simA"
  /\ outcome \in SimOutcomes(dkg.n)
  /\ IF PhaseAEnds(outcome)
       THEN DkgEnds([dkg EXCEPT !.driven = TRUE, !.phaseA = outcome],
                    "Err", "aux_info_gen failed")
       ELSE dkg' = [dkg EXCEPT !.driven = TRUE, !.pc = "buildB", !.phaseA = outcome,
                               !.aux_infos = SimResults("aux", dkg.n)]
  /\ UNCHANGED <<tick, simVars, signVars, heapVars>>

\* Phase B: one keygen party per index 0..n-1 (lib.rs:122-135, 238-250,
\* main.rs:204-216, 358-370).
DkgBuildKeygen ==
  /\ dkg.pc = "buildB"
  /\ dkg' = [dkg EXCEPT !.built = @ + dkg.n, !.pc = "simB"]
  /\ UNCHANGED <<tick, simVars, signVars, heapVars>>

\* The aux_info field of share i (counted from 0): the serialized phase A result
\* (lib.rs:155-156, main.rs:236-241); dkg-with-aux puts the supplied string
\* back (main.rs:390).
AuxFieldReencodedMut(d, ix) == Ser(d.entry, d.aux_infos[ix + 1])
AuxField(d, ix) ==
  IF d.entry = "dkg-with-aux" THEN Supplied(ix) ELSE Ser(d.entry, d.aux_infos[ix + 1])

\* Share i of the output (lib.rs:152-161, main.rs:232-242, 384-392).
ShareCrossedMut(d, cores, ix) ==
  [core_share |-> Ser(d.entry, cores[ix + 1]), aux_info |-> AuxField(d, d.n - 1 - ix)]
Share(d, cores, ix) ==
  [core_share |-> Ser(d.entry, cores[ix + 1]), aux_info |-> AuxField(d, ix)]

\* lib.rs:137-170, 252-264, main.rs:218-247, 372-399: run phase B, take the
\* public key from core_shares[0], serialize.
DkgRunKeygen(outcome) ==
  /\ dkg.pc = "simB"
  /\ outcome \in SimOutcomes(dkg.n)
  /\ IF outcome # "Ok"
       THEN DkgEnds([dkg EXCEPT !.driven = TRUE], "Err", "keygen failed")
       ELSE IF dkg.n = 0
         THEN DkgEnds([dkg EXCEPT !.driven = TRUE], "panic", "index out of bounds")
         ELSE LET cores == SimResults("core", dkg.n)
              IN DkgEnds([dkg EXCEPT !.driven = TRUE, !.core_shares = cores,
                                     !.shares = [k \in 1 .. dkg.n |-> Share(dkg, cores, k - 1)]],
                         "Ok", "")
  /\ UNCHANGED <<tick, simVars, signVars, heapVars>>

DkgNext ==
  \/ \E entry \in Entries, nn \in 0 .. MaxDkgN, threshold \in 0 .. (MaxDkgN + 1) :
       \E have \in IF TakesSets(entry) THEN 0 .. MaxDkgN ELSE {0},
          cached_n \in IF entry = "dkg-with-aux" THEN 0 .. MaxDkgN ELSE {0},
          sets_ok \in IF TakesSets(entry) THEN BOOLEAN ELSE {TRUE} :
            DkgCall(entry, nn, threshold, have, cached_n, sets_ok)
  \/ \E k \in 0 .. MaxDkgN, sets_ok \in BOOLEAN : DkgBuildAux(k, sets_ok)
  \/ \E outcome \in {"Ok", "SimErr", "PartyErr"} : DkgRunAux(outcome)
  \/ DkgBuildKeygen
  \/ \E outcome \in {"Ok", "SimErr", "PartyErr"} : DkgRunKeygen(outcome)

DkgSpec == DkgInit /\ [][DkgNext]_vars

(***************************************************************************)
(* One run of either driver: the native main dispatches on its command     *)
(* (main.rs:659-789), a WASM caller uses the signing or the DKG exports.   *)
(***************************************************************************)
DriverInit == SignInit \/ DkgInit
DriverNext ==
  \/ SignNext
  \/ impl = "none" /\ DkgNext
DriverSpec == DriverInit /\ [][DriverNext]_vars

(***************************************************************************)
(* Simulator claims.                                                       *)
(***************************************************************************)
IsAppendOf(q2, q1) == Len(q2) = Len(q1) + 1 /\ SubSeq(q2, 1, Len(q1)) = q1
LastOf(q) == q[Len(q)]
Unfinished == {p \in Parties : outputs[p] = None}

\* C1: whenever a party s emits a broadcast, the step appends exactly one copy of
\* it (sender s, type Broadcast, the emitted message) to the inbox of every other
\* party and leaves the inbox of s as it was.
C1_BroadcastRouting ==
  [][ (sends' # sends /\ ev'.dest = "all") =>
        \A j \in Parties :
          IF j # ev'.sender
            THEN /\ IsAppendOf(queues'[j], queues[j])
                 /\ LastOf(queues'[j]).sender = ev'.sender
                 /\ LastOf(queues'[j]).msg_type = "Broadcast"
                 /\ LastOf(queues'[j]).msg = ev'.msg
            ELSE queues'[j] = queues[j] ]_vars

\* A broadcast was emitted among at least two parties and its copy sits last
\* in another party's inbox history.
C1_Witness ==
  /\ n >= 2 /\ ev.dest = "all"
  /\ \E j \in Parties : j # ev.sender /\ enq[j] # <<>> /\ LastOf(enq[j]).msg = ev.msg

\* C2: for every party j, what was handed to received_msg of j, followed by
\* what still waits in its inbox, is exactly what was appended to the inbox, in
\* the order of appending.
C2_InboxFifo == \A j \in Parties : enq[j] = dlv[j] \o queues[j]

\* A party received two messages, the one enqueued first being delivered first.
C2_Witness ==
  \E j \in Parties : Len(dlv[j]) >= 2 /\ dlv[j][1].id < dlv[j][2].id

\* C3: a success result is returned only when every party has produced an
\* output; it has n entries and entry k is the output of party k, whatever the
\* order in which the parties finished.
C3_OkInIndexOrder ==
  result.kind = "Ok" =>
    /\ \A k \in Parties : outputs[k] # None
    /\ Len(result.val) = n
    /\ Len(finishLog) = n
    /\ \A k \in Parties : \E e \in 1 .. Len(finishLog) : finishLog[e][1] = k
    /\ \A e \in 1 .. Len(finishLog) : result.val[finishLog[e][1] + 1] = finishLog[e][2]

\* A run succeeded in which party 0 was not the first to finish.
C3_Witness == result.kind = "Ok" /\ n >= 2 /\ finishLog[1][1] # 0

\* C4: when the outer loop runs out of iterations, run returns the error
\* "protocol did not complete: k/n" with k the number of parties that have an
\* output (0 when no party ever finished), and no outputs.
C4_CapError ==
  (pc = "returned" /\ iter = OuterCap) =>
    /\ result.kind = "Err"
    /\ result.err = "protocol did not complete"
    /\ result.a = Cardinality(Parties \ Unfinished)
    /\ result.b = n
    /\ result.val = <<>>

\* The cap was reached with some, but not all, parties finished.
C4_Witness ==
  /\ pc = "returned" /\ iter = OuterCap
  /\ Unfinished # {} /\ Unfinished # Parties

\* The cap was reached with every party waiting for input from the start.
C4_WitnessNone ==
  /\ pc = "returned" /\ iter = OuterCap /\ result.a = 0 /\ sends = 0
  /\ \A p \in Parties : wants_msg[p]

\* Every unfinished party waits for input and has an empty inbox.
Deadlocked ==
  /\ pc = "loop"
  /\ Unfinished # {}
  /\ \A p \in Unfinished : wants_msg[p] /\ queues[p] = <<>>

\* C5: from a state in which every unfinished party waits for input with an
\* empty inbox, the run eventually returns the error "protocol did not complete".
C5_DeadlockEnds ==
  Deadlocked ~> (pc = "returned" /\ result.kind = "Err"
                 /\ result.err = "protocol did not complete")

\* A deadlock in the first outer iteration, after a message was delivered.
C5_Witness == Deadlocked /\ iter = 0 /\ \E p \in Parties : dlv[p] # <<>>


(***************************************************************************)
(* Signing claims, stated over both builds (SignSpec).                     *)
(***************************************************************************)
Members(parties) == {parties[k] : k \in 1 .. Len(parties)}

\* C6: in the signing loop of either build, a message with is_broadcast = false
\* whose recipient is set and differs from this party's keygen index is never
\* handed to the state machine.  The native round loop has no such filter
\* (main.rs:611-633), so this is violated there.
C6_OtherPartyP2PNeverDelivered ==
  lastDlv.some => ~NotForUs(lastDlv.party_index, lastDlv.wire)

\* The native process hands over a point-to-point message addressed to another party.
C6_NativeDelivers ==
  /\ impl = "native" /\ lastDlv.some
  /\ lastDlv.parties_at_keygen = <<1, 2>> /\ lastDlv.party_index = 1
  /\ lastDlv.wire.sender = 2 /\ lastDlv.wire.recipient = Some(2)
  /\ ~lastDlv.wire.is_broadcast

\* C7: in either build every message handed to the state machine carries as its
\* sender the 0-based position of the wire sender within parties_at_keygen.
\* The native round loop passes msg.sender through (main.rs:620).
C7_SenderIsPosition ==
  lastDlv.some =>
    Some(lastDlv.sender) = PositionOf(lastDlv.parties_at_keygen, lastDlv.wire.sender)

\* The native process delivers wire sender 2 of the group [1,2] as sender 2.
C7_NativeRawSender ==
  /\ impl = "native" /\ lastDlv.some
  /\ lastDlv.parties_at_keygen = <<1, 2>> /\ lastDlv.party_index = 1
  /\ lastDlv.wire.sender = 2 /\ lastDlv.sender = 2
  /\ lastDlv.wire.is_broadcast

\* C8: in either build an outgoing point-to-point message addressed to position p
\* of the group goes out with recipient parties_at_keygen[p], and every outgoing
\* message has this party's keygen index as its sender.  The native drive_batch
\* writes the position itself (main.rs:553-556).
C8_RecipientIsKeygenIndex ==
  lastEmit.some =>
    /\ lastEmit.wire.sender = lastEmit.party_index
    /\ (lastEmit.dest # None /\ lastEmit.dest[1] < Len(lastEmit.parties_at_keygen)) =>
         lastEmit.wire.recipient = Some(lastEmit.parties_at_keygen[lastEmit.dest[1] + 1])

\* The native process addresses position 0 of the group [1,2] as recipient 0.
C8_NativeRawRecipient ==
  /\ impl = "native" /\ lastEmit.some
  /\ lastEmit.parties_at_keygen = <<1, 2>> /\ lastEmit.party_index = 2
  /\ lastEmit.dest = Some(0) /\ lastEmit.wire.recipient = Some(0)

\* C9: every message a signing session of either build emits has its sender in
\* parties_at_keygen, and every point-to-point one has its recipient in it.
C9_WireIndicesInGroup ==
  lastEmit.some =>
    /\ lastEmit.wire.sender \in Members(lastEmit.parties_at_keygen)
    /\ ~lastEmit.wire.is_broadcast =>
         /\ lastEmit.wire.recipient # None
         /\ lastEmit.wire.recipient[1] \in Members(lastEmit.parties_at_keygen)

\* The native process emits, for the group [1,2] and an in-range position, a
\* recipient that is not a member of the group.
C9_NativeRecipientOutside ==
  /\ impl = "native" /\ lastEmit.some
  /\ lastEmit.parties_at_keygen = <<1, 2>> /\ lastEmit.party_index = 1
  /\ lastEmit.dest = Some(0) /\ lastEmit.wire.recipient = Some(0)
  /\ ~lastEmit.wire.is_broadcast

\* C10: in either build a message that is not filtered out and whose sender is
\* not in parties_at_keygen is never handed to the state machine.  The native
\* round loop has no sender check (main.rs:611-633).
C10_UnknownSenderNeverDelivered ==
  lastDlv.some => PositionOf(lastDlv.parties_at_keygen, lastDlv.wire.sender) # None

\* The native process hands over a message from keygen index 0 in the group [1,2].
C10_NativeDeliversUnknown ==
  /\ impl = "native" /\ lastDlv.some
  /\ lastDlv.parties_at_keygen = <<1, 2>> /\ lastDlv.party_index = 1
  /\ lastDlv.wire.sender = 0 /\ lastDlv.sender = 0
  /\ proc.state = "run"

\* What the WASM build does on the same inputs: process_round skips messages for
\* other parties, delivers positions, and fails on an unknown sender; the
\* recipient of an in-range position is the keygen index at that position.
WasmTranslates ==
  impl = "wasm" =>
    /\ lastDlv.some =>
         /\ ~NotForUs(lastDlv.party_index, lastDlv.wire)
         /\ Some(lastDlv.sender) = PositionOf(lastDlv.parties_at_keygen, lastDlv.wire.sender)
    /\ (lastEmit.some /\ lastEmit.dest # None
          /\ lastEmit.dest[1] < Len(lastEmit.parties_at_keygen)) =>
         lastEmit.wire.recipient = Some(lastEmit.parties_at_keygen[lastEmit.dest[1] + 1])


\* C11: in either build, between two deliveries of one round the state machine
\* is driven until it returns NeedsInput or Finished: a delivery that is not the
\* first of its round starts from a drive_batch that ended in one of the two.
C11_DriveBetweenDeliveries ==
  [][(lastDlv'.some /\ call.delivered > 0) => call.drove \in {"NeedsInput", "Finished"}]_vars

\* The second message of a batch has been delivered.
C11_Witness == lastDlv.some /\ call.delivered = 2 /\ call.pc = "drive"


\* The wire messages `messages` are the emissions `emitted`, one for one and in
\* the same order.
SameMessages(messages, emitted) ==
  /\ Len(messages) = Len(emitted)
  /\ \A k \in 1 .. Len(messages) :
       /\ messages[k].payload = emitted[k].payload
       /\ messages[k].is_broadcast = (emitted[k].dest = None)

\* C12: the outgoing list a successful create_session or process_round returns,
\* and the list of every line the native process writes, holds exactly the
\* messages the state machine emitted during that call (round), in the order it
\* emitted them, across all deliveries of the batch.
C12_OutgoingInEmissionOrder ==
  [][/\ (ret'.ok /\ ret'.op \in {"create", "round"}) =>
          SameMessages(ret'.messages, call.emitted)
     /\ (nlines' # nlines) => SameMessages(line'.messages, call.emitted)]_vars

\* A round returned two messages (the most one call emits).
C12_Witness ==
  /\ ret.ok /\ ret.op = "round" /\ Len(ret.messages) = MaxEmit
  /\ ret.messages[1].payload = 1 /\ ret.messages[2].payload = 2


\* A step in which create_session is called (WASM) or the init line is read and
\* parsed (native), and the arguments it was given.
BeginsCreate ==
  \/ impl = "wasm" /\ call.pc = "idle" /\ (ret'.op = "create" \/ call'.op = "create")
  \/ impl = "native" /\ proc.state = "start" /\ proc'.state # "start"
     /\ (proc'.args # NoArgs \/ call'.args # NoArgs)
GivenArgs ==
  IF call'.op \in {"create", "native"} THEN call'.args
  ELSE IF impl = "wasm" THEN ret'.args ELSE proc'.args
IsPosition(parties, k, p) ==
  /\ p \in 0 .. (Len(parties) - 1)
  /\ parties[p + 1] = k
  /\ \A q \in 0 .. (p - 1) : parties[q + 1] # k

\* C13: session creation in either build fails, without constructing or driving
\* a state machine and without touching the session store, when message_hash is
\* not 32 bytes long or party_index does not occur in parties_at_keygen;
\* otherwise (the key share being good) the machine is constructed with i = the
\* position of party_index in parties_at_keygen.
C13_CreateValidates ==
  [][BeginsCreate =>
       IF \/ GivenArgs.hash_len # 32
          \/ GivenArgs.party_index \notin Members(GivenArgs.parties)
         THEN /\ call' = IdleCall
              /\ sessions' = sessions
              /\ ~lastEmit'.some
              /\ impl = "wasm" => ~ret'.ok
              /\ impl = "native" => (proc'.state = "exited" /\ proc'.exit # Some(0))
         ELSE GivenArgs.key_ok =>
                /\ call'.pc = "drive"
                /\ call'.sess.sm = "live"
                /\ call'.sess.party_index = GivenArgs.party_index
                /\ call'.sess.parties_at_keygen = GivenArgs.parties
                /\ IsPosition(GivenArgs.parties, GivenArgs.party_index, call'.sess.i)]_vars

\* A session of the group [1,2] for keygen index 2 is being created: position 1.
C13_Witness ==
  /\ call.op \in {"create", "native"} /\ call.pc = "drive" /\ call.emitted = <<>>
  /\ call.sess.parties_at_keygen = <<1, 2>> /\ call.sess.party_index = 2
  /\ call.sess.i = 1
\* create_session was refused because party_index is not in the group.
C13_WitnessRefused ==
  /\ ret.op = "create" /\ ~ret.ok /\ ret.args.hash_len = 32 /\ ret.args.key_ok
  /\ ret.args.party_index \notin Members(ret.args.parties)


\* C14: destroy_session(id) returns true exactly when a session with that id is
\* in the store, and removes it (and nothing else); a destroy_session(id) that
\* directly follows another destroy_session(id) returns false.
C14_DestroyOnce ==
  [][ret'.op = "destroy" =>
       /\ ret'.ok = (sessions[ret'.id] # NoSession)
       /\ sessions' = [id \in Ids |-> IF id = ret'.id THEN NoSession ELSE sessions[id]]
       /\ (ret.op = "destroy" /\ ret.id = ret'.id) => ~ret'.ok]_vars

\* destroy_session has just removed a stored session.
C14_Witness == ret.op = "destroy" /\ ret.ok /\ sessions[ret.id] = NoSession


\* C15: a signing session is removed from the store when its protocol
\* completes: once the create_session or process_round call in which the state
\* machine returned Finished is over, no session holding a signature is stored.
\* process_round and create_session never remove a session (sign.rs:329-331,
\* 347-409), so this is violated.
C15_DestroyedOnCompletion ==
  call.pc = "idle" => \A id \in Ids : sessions[id].signature = None

\* process_round has returned complete = true and the session is still stored.
C15_StillStored ==
  /\ ret.op = "round" /\ ret.ok /\ ret.complete
  /\ sessions[ret.id] # NoSession /\ sessions[ret.id].signature # None

\* C16: a failed delivery or a protocol error is fatal for the session: a state
\* machine that rejected a message or reported an error gets no further message
\* and is not driven again.  The WASM store keeps the session after a failed
\* process_round and the next call uses it (sign.rs:347-391).
C16_FailureIsFatal ==
  [][(lastDlv'.some \/ call.pc = "drive") => CurSession.sm # "failed"]_vars

\* A later process_round has delivered a message to a failed state machine and
\* is driving it.
C16_FailedSessionUsed ==
  /\ impl = "wasm" /\ call.op = "round" /\ call.pc = "drive" /\ call.delivered = 1
  /\ sessions[call.id].sm = "failed"

\* C17: Finished is terminal: a state machine that returned Finished gets no
\* further message, neither the rest of the batch nor later batches, and is not
\* driven again.  process_round goes on with the batch after Finished and
\* accepts later calls (sign.rs:362-399); only the native loop breaks
\* (main.rs:636-639, 653-655).
C17_FinishedIsTerminal ==
  [][(lastDlv'.some \/ call.pc = "drive") => CurSession.sm # "finished"]_vars

\* The second message of a batch was delivered after the first one finished the
\* protocol.
C17_DeliveredAfterFinished ==
  /\ impl = "wasm" /\ lastDlv.some /\ call.op = "round" /\ call.delivered = 2
  /\ sessions[call.id].signature # None


(***************************************************************************)
(* Heap claims (HeapSpec).                                                 *)
(***************************************************************************)
Collaborators == Objects \ {"sm"}

\* C18: on every path that destroys a SignSession the state machine is released
\* first: while the state machine of a session is alive every object it
\* references is alive, and a key share, RNG or prehashed scalar of a session
\* that got a state machine is released only after that state machine.
C18_StateMachineFirst ==
  \A k \in 1 .. MaxCreates :
    /\ heap[k]["sm"] = "live" => \A o \in Collaborators : heap[k][o] = "live"
    /\ (heap[k]["sm"] # "none" /\ \E o \in Collaborators : heap[k][o] = "freed")
         => heap[k]["sm"] = "freed"

\* destroy_session is in the middle of Drop: the state machine is gone, the key
\* share not yet.
C18_Witness ==
  /\ hcall.op = "destroy" /\ hcall.pc = "drop"
  /\ heap[hcall.drop]["sm"] = "freed" /\ heap[hcall.drop]["key_share"] = "live"
\* The same in a create_session whose initial drive failed.
C18_WitnessFailedDrive ==
  /\ hcall.op = "create" /\ hcall.pc = "drop" /\ hcall.drop = hcall.ser
  /\ heap[hcall.drop]["sm"] = "freed" /\ heap[hcall.drop]["rng"] = "live"

\* The sessions that are gone: built (at least begun) and neither stored nor
\* being worked on.
Gone == {k \in 1 .. created : (\A id \in Ids : hstore[id] # k) /\ hcall.ser # k /\ hcall.drop # k}

\* C19: after a session has been destroyed, and after a failed create_session,
\* none of the heap objects allocated for it remains allocated.  The
\* execution-id bytes and the parties array are leaked with Box::leak
\* (sign.rs:270-276) and no code reclaims them, so this is violated.
C19_NothingLeftAllocated ==
  \A k \in Gone : \A o \in Objects : heap[k][o] # "live"

\* A destroyed session whose execution-id bytes and parties array are still
\* allocated, everything else released.
C19_Leaked ==
  \E k \in Gone :
    /\ heap[k]["sm"] = "freed" /\ heap[k]["key_share"] = "freed"
    /\ heap[k]["rng"] = "freed" /\ heap[k]["prehashed"] = "freed"
    /\ heap[k]["eid"] = "live" /\ heap[k]["parties"] = "live"


(***************************************************************************)
(* DKG claims (DkgSpec).                                                   *)
(***************************************************************************)
BadDkgArgs(d) == d.n < 2 \/ d.threshold < 2 \/ d.threshold > d.n

\* C20: every DKG entry point rejects n < 2 and a threshold outside [2, n] with
\* an input-validation error before any party is built or driven.  The native
\* commands do not check either argument (main.rs:136-171, 336-345, 668-677).
C20_DkgRejectsBadArgs ==
  (dkg.entry # "none" /\ BadDkgArgs(dkg)) =>
    /\ dkg.pc = "idle" /\ dkg.out = "Err"
    /\ dkg.err \in {"n must be at least 2", "threshold must be in [2, n]"}
    /\ dkg.built = 0 /\ ~dkg.driven

\* The native dkg command, given n = 3 and threshold = 1, has built its parties
\* and run phase A.
C20_NativeBuilds ==
  /\ dkg.entry = "dkg" /\ dkg.n = 3 /\ dkg.threshold = 1
  /\ dkg.built = 3 /\ dkg.driven

\* The WASM entry points do reject such arguments before building anything.
WasmDkgValidates ==
  (dkg.entry \in WasmEntries /\ BadDkgArgs(dkg)) =>
    /\ dkg.pc = "idle" /\ dkg.out = "Err"
    /\ dkg.err \in {"n must be at least 2", "threshold must be in [2, n]"}
    /\ dkg.built = 0 /\ ~dkg.driven


\* C21: a successful DKG (full, or with supplied primes) emits exactly n shares,
\* and share i holds the phase B result of party i together with the phase A
\* result of the same party i.
C21_ShareIPairsPartyI ==
  (dkg.out = "Ok" /\ dkg.entry # "dkg-with-aux") =>
    /\ Len(dkg.shares) = dkg.n
    /\ \A k \in 0 .. (dkg.n - 1) :
         /\ dkg.shares[k + 1].core_share.of = <<"core", k>>
         /\ dkg.shares[k + 1].aux_info.of = <<"aux", k>>

\* A DKG for three parties has succeeded.
C21_Witness ==
  /\ dkg.out = "Ok" /\ dkg.entry \in {"run_dkg", "dkg"} /\ dkg.n = 3
  /\ dkg.threshold = 2 /\ Len(dkg.shares) = 3


\* C22: DKG with supplied primes fails, building nothing, when fewer than n
\* blobs are supplied; otherwise party k is built with the k-th supplied blob
\* for k in [0, n), and blobs beyond the first n are not used.
C22_PrimesByIndex ==
  dkg.entry \in {"run_dkg_with_primes", "dkg-with-primes"} =>
    /\ dkg.have < dkg.n => (dkg.pc = "idle" /\ dkg.out = "Err" /\ dkg.built = 0)
    /\ Len(dkg.primes) <= dkg.n
    /\ dkg.pc \in {"simA", "buildB", "simB"} => Len(dkg.primes) = dkg.n
    /\ \A k \in 0 .. (Len(dkg.primes) - 1) : dkg.primes[k + 1] = <<"given", k>>

\* Three blobs were supplied for two parties, and the two parties are built.
C22_Witness ==
  /\ dkg.entry \in {"run_dkg_with_primes", "dkg-with-primes"}
  /\ dkg.n = 2 /\ dkg.have = 3 /\ dkg.pc = "simA" /\ Len(dkg.primes) = 2
\* Fewer blobs than parties.
C22_WitnessTooFew ==
  /\ dkg.entry = "run_dkg_with_primes" /\ dkg.n = 3 /\ dkg.threshold = 2
  /\ dkg.have = 2 /\ dkg.out = "Err"


\* C23: dkg-with-aux builds and drives no aux-info party, only the keygen
\* ones; it fails when fewer than n entries are supplied; on success the
\* aux_info of share k is the k-th supplied entry, as supplied.
C23_SuppliedAuxPassedThrough ==
  dkg.entry = "dkg-with-aux" =>
    /\ dkg.aux_built = 0
    /\ dkg.pc \notin {"buildA", "simA"}
    /\ dkg.built \in {0, dkg.n}
    /\ dkg.have < dkg.n => (dkg.pc = "idle" /\ dkg.out = "Err" /\ dkg.built = 0)
    /\ dkg.out = "Ok" =>
         /\ Len(dkg.shares) = dkg.n
         /\ dkg.built = dkg.n
         /\ \A k \in 0 .. (dkg.n - 1) :
              /\ dkg.shares[k + 1].aux_info = Supplied(k)
              /\ dkg.shares[k + 1].core_share.of = <<"core", k>>

\* Three entries were supplied for two parties and the run succeeded.
C23_Witness ==
  /\ dkg.entry = "dkg-with-aux" /\ dkg.out = "Ok" /\ dkg.n = 2 /\ dkg.have = 3
  /\ Len(dkg.shares) = 2 /\ dkg.driven
\* Fewer entries than parties.
C23_WitnessTooFew ==
  dkg.entry = "dkg-with-aux" /\ dkg.n = 2 /\ dkg.have = 1 /\ dkg.out = "Err"


\* C24: the native signing process ends with exit code 1 on every parse or
\* protocol failure, and with exit code 0 only after it has written the
\* line that carries the signature.
C24_FailureExitsWithOne ==
  [][(proc'.state = "exited" /\ proc.state # "exited") =>
       \/ proc'.exit = Some(0) /\ line'.complete
       \/ proc'.exit = Some(1) /\ ~line'.complete]_vars

\* The process ended with the exit code of a panic.
C24_PanickedExit ==
  impl = "native" /\ proc.state = "exited" /\ proc.exit = Some(PanicExit)


\* C25: partial outputs are not emitted.  A failing WASM call returns the
\* error and no message, whatever the earlier deliveries of the batch
\* produced; the native process that ends on a failure writes no line for
\* that round; a DKG that does not succeed gives no shares.
C25_NoPartialOutput ==
  [][/\ ~ret'.ok => (ret'.messages = <<>> /\ ~ret'.complete /\ ret'.signature = None)
     /\ (proc'.state = "exited" /\ proc.state # "exited" /\ proc'.exit # Some(0)) =>
          (nlines' = nlines /\ line' = NoLine)
     /\ dkg'.out # "Ok" => dkg'.shares = <<>>]_vars

\* A round failed after earlier deliveries of the batch had produced messages.
C25_Witness ==
  /\ impl = "wasm" /\ ret.op = "round" /\ ~ret.ok /\ ret.discarded > 0
  /\ ret.err = "failed to deliver message to state machine"
\* A DKG failed in the key generation phase, after the aux-info phase succeeded.
C25_WitnessDkg ==
  /\ dkg.out = "Err" /\ dkg.err = "keygen failed" /\ dkg.aux_infos # <<>>
  /\ dkg.shares = <<>>


\* C26 as stated: the native loop has written one line for the init record
\* and one line for every round line it has read, whenever it waits for the
\* next line or has ended.
C26_OneLinePerLineRead ==
  (impl = "native" /\ (call.pc = "wait" \/ (proc.state = "exited" /\ proc.reads > 0))) =>
    nlines = proc.reads + 1

\* C26, amended: one line for the init record and one line for every round
\* line whose batch is processed without a failure (a failing round ends the
\* process without a line); a line with complete = true is written at most
\* once, is the last line, is followed by exit 0 without another read, and a
\* line carries r and s exactly when complete is true.
C26_OneLinePerCompletedRound ==
  [][impl = "native" =>
       /\ call'.pc = "wait" => nlines' = proc'.reads + 1
       /\ (proc'.state = "run" /\ call'.pc # "wait") => nlines' = proc'.reads
       /\ nlines' \in {nlines, nlines + 1}
       /\ proc'.reads \in {proc.reads, proc.reads + 1}
       /\ ~(nlines' # nlines /\ proc'.reads # proc.reads)
       /\ nlines' = nlines => line' = NoLine
       /\ nlines' # nlines => ((line'.rs # None) <=> line'.complete)
       /\ line'.complete <=> (proc'.state = "exited" /\ proc'.exit = Some(0))
       /\ line'.complete => (nlines' = nlines + 1 /\ nlines' = proc'.reads + 1)
       /\ (proc'.state = "exited" /\ proc'.exit # Some(0)) =>
            (nlines' = nlines /\ nlines' = proc'.reads)
       /\ proc.state # "exited"]_vars

\* Two round lines were read, and the third line written carries the signature.
C26_Witness ==
  /\ impl = "native" /\ proc.state = "exited" /\ proc.exit = Some(0)
  /\ proc.reads = 2 /\ nlines = 3 /\ line.complete /\ line.rs # None
\* A round line was read, its batch failed, and no line was written for it.
C26_WitnessFailedRound ==
  /\ impl = "native" /\ proc.state = "exited" /\ proc.exit = Some(1)
  /\ proc.reads = 2 /\ nlines = 2


C28_RunTerminates == <>(pc = "returned")

\* The first party has answered Yielded and is still in its first turn: the
\* outer iteration counter has not moved.
C28_YieldedInsideTurn ==
  /\ pc = "loop" /\ iter = 0 /\ i = 0 /\ tick = 1 /\ outputs[0] = None
  /\ ~wants_msg[0] /\ sends = 0


\* C29: when a party answers NeedsInput the simulator sets its flag and
\* ends the party's turn, so a delivery to a party is the only one of its
\* turn: the step that sets the flag moves on to the next party, and a
\* party is handed at most one message per sweep, none in the first one.
C29_NeedsInputEndsTurn ==
  [][/\ (InParty /\ ~wants_msg[i] /\ wants_msg'[i]) => i' = i + 1
     /\ (InParty /\ dlv'[i] # dlv[i]) =>
          (iter > 0 /\ Len(dlv'[i]) <= iter)]_vars

\* In the first sweep the second party was handed two messages: both
\* deliveries fall in its one turn of that sweep.
C29_TwoDeliveriesInOneTurn ==
  /\ n = 2 /\ pc = "loop" /\ iter = 0 /\ i = 1 /\ Len(dlv[1]) = 2


\* C30: a message is delivered to a party only when its flag is set and its
\* inbox is non-empty; the delivery pops exactly one message, the one at the
\* front, and an accepted delivery clears the flag; the flag is set exactly
\* by a NeedsInput answer; a flagged party with an empty inbox is not driven
\* in that turn: the simulator moves on and nothing else changes.
C30_DeliveryNeedsFlagAndMessage ==
  [][/\ \A p \in Parties :
          dlv'[p] # dlv[p] =>
            /\ p = i /\ InParty /\ wants_msg[p] /\ queues[p] # <<>>
            /\ dlv'[p] = Append(dlv[p], Head(queues[p]))
            /\ queues'[p] = Tail(queues[p])
            /\ pc' # "returned" => ~wants_msg'[p]
            /\ i' = i
     /\ \A p \in Parties :
          Len(queues'[p]) < Len(queues[p]) => dlv'[p] # dlv[p]
     /\ \A p \in Parties :
          (wants_msg[p] /\ ~wants_msg'[p]) => dlv'[p] # dlv[p]
     /\ (InParty /\ wants_msg[i] /\ queues[i] = <<>>) =>
          /\ i' = i + 1
          /\ UNCHANGED <<queues, wants_msg, outputs, done, next_id, iter, pc, result,
                         sends, tick, ev, enq, dlv, finishLog>>]_vars

\* A flagged party was handed the front message of an inbox of two and its
\* flag is cleared.
C30_Witness ==
  /\ pc = "loop" /\ i = 1 /\ i < n /\ Len(dlv[1]) = 1 /\ Len(queues[1]) = 1
  /\ ~wants_msg[1] /\ enq[1] = dlv[1] \o queues[1]
\* A flagged party with an empty inbox was passed over.
C30_WitnessPassedOver ==
  /\ pc = "loop" /\ i = 1 /\ wants_msg[0] /\ queues[0] = <<>> /\ outputs[0] = None
  /\ sends = 0


\* C31: as soon as a party's proceed() answers Error or a delivery to it is
\* rejected, run returns an error that names this party's index: no step
\* follows the return, and the result carries no party output, whichever
\* parties had finished.
C31_ErrorStopsRun ==
  [][/\ pc # "returned"
     /\ (result'.kind = "Err"
         /\ result'.err \in {"protocol error", "failed to receive message"}) =>
          /\ InParty
          /\ result'.a = i
          /\ result'.val = <<>>
          /\ pc' = "returned"
          /\ UNCHANGED <<outputs, done, wants_msg, next_id, iter, i>>]_vars

\* The second party answered Error after the first one had finished.
C31_Witness ==
  /\ pc = "returned" /\ result.kind = "Err" /\ result.err = "protocol error"
  /\ result.a = 1 /\ outputs[0] # None /\ result.val = <<>>
\* A delivery to the second party was rejected.
C31_WitnessRejected ==
  /\ pc = "returned" /\ result.err = "failed to receive message" /\ result.a = 1
  /\ Len(dlv[1]) = 1


\* C32: once a party has finished, its output slot is never written again,
\* the finished counter has counted it exactly once, and the party is never
\* driven and never handed a message again, whatever its inbox holds: its
\* turn is skipped with nothing else changed.
C32_FinishedPartyLeftAlone ==
  [][/\ \A p \in Parties :
          outputs[p] # None =>
            /\ outputs'[p] = outputs[p]
            /\ dlv'[p] = dlv[p]
            /\ wants_msg'[p] = wants_msg[p]
            /\ Len(queues'[p]) >= Len(queues[p])
            /\ (pc = "loop" /\ i = p) =>
                 /\ i' = i + 1
                 /\ UNCHANGED <<queues, wants_msg, outputs, done, next_id, iter, pc,
                                result, sends, tick, ev, enq, dlv, finishLog>>
     /\ Cardinality({p \in Parties : outputs[p] = None /\ outputs'[p] # None}) <= 1
     /\ done' = Cardinality({p \in Parties : outputs'[p] # None})
     /\ done' = done + Cardinality({p \in Parties : outputs[p] = None /\ outputs'[p] # None})]_vars

\* The first party finished with a message left in its inbox; in a later
\* sweep its turn was passed, the message still there.
C32_Witness ==
  /\ n = 2 /\ pc = "loop" /\ iter = 1 /\ i = 1 /\ outputs[0] # None
  /\ queues[0] # <<>> /\ dlv[0] = <<>> /\ done = 1


\* The ids of everything placed in the inboxes so far.
PlacedIds(log) == UNION {{log[p][k].id : k \in 1 .. Len(log[p])} : p \in Parties}
Placements(log) == UNION {{<<p, k>> : k \in 1 .. Len(log[p])} : p \in Parties}

\* C33: every message placed in an inbox, broadcast copy or point-to-point,
\* gets an id different from every id given before, and ids are given in
\* strictly increasing order: a step gives ids from the counter upwards,
\* without a gap, and the counter moves past them.
C33_FreshIncreasingIds ==
  [][/\ \A x, y \in Placements(enq') :
          x # y => enq'[x[1]][x[2]].id # enq'[y[1]][y[2]].id
     /\ \A p \in Parties : \A k \in 1 .. (Len(enq'[p]) - 1) :
          enq'[p][k].id < enq'[p][k + 1].id
     /\ PlacedIds(enq') = 0 .. (next_id' - 1)
     /\ PlacedIds(enq) \subseteq PlacedIds(enq')
     /\ \A new \in PlacedIds(enq') \ PlacedIds(enq) :
          /\ new >= next_id
          /\ \A old \in PlacedIds(enq) : old < new
     /\ next_id' >= next_id]_vars

\* Two messages were placed, in different inboxes: one is a broadcast copy,
\* the other a point-to-point message.
C33_Witness ==
  /\ n = 2 /\ sends = 2 /\ next_id = 2 /\ Len(enq[0]) = 1 /\ Len(enq[1]) = 1
  /\ enq[0][1].msg_type # enq[1][1].msg_type


\* The keygen parties built so far.
KeygenBuilt == dkg.built - dkg.aux_built

\* C34: in a full DKG no keygen party is built or driven before all n
\* aux-info parties were built, run and finished with a result each; when the
\* aux-info run fails, or a party's result is an error, the call fails and
\* no keygen party is ever built.
C34_PhaseBAfterPhaseA ==
  dkg.entry \in Entries \ {"dkg-with-aux"} =>
    /\ (dkg.pc \in {"buildB", "simB"} \/ KeygenBuilt > 0 \/ dkg.core_shares # <<>>) =>
         /\ dkg.phaseA = "Ok"
         /\ dkg.aux_built = dkg.n
         /\ Len(dkg.aux_infos) = dkg.n
    /\ dkg.phaseA \in {"SimErr", "PartyErr"} =>
         /\ dkg.pc = "idle" /\ dkg.out = "Err" /\ dkg.err = "aux_info_gen failed"
         /\ KeygenBuilt = 0 /\ dkg.core_shares = <<>> /\ dkg.shares = <<>>
    /\ dkg.pc \in {"buildA", "simA"} => (KeygenBuilt = 0 /\ dkg.phaseA = "")
    /\ KeygenBuilt \in {0, dkg.n}

\* The keygen parties of a full DKG are built, phase A having given n results.
C34_Witness ==
  /\ dkg.entry \in {"run_dkg", "dkg"} /\ dkg.n = 3 /\ dkg.pc = "simB"
  /\ KeygenBuilt = 3 /\ dkg.phaseA = "Ok"
\* A party of phase A returned an error.
C34_WitnessPartyErr ==
  /\ dkg.entry \in {"run_dkg", "dkg"} /\ dkg.n = 3 /\ dkg.phaseA = "PartyErr"
  /\ dkg.out = "Err" /\ dkg.aux_built = 3


\* The call simulate::run makes to the party in a step.
RunCalls ==
  IF \E p \in Parties : dlv'[p] # dlv[p] THEN "received_msg"
  ELSE IF CanProceed THEN "proceed" ELSE "none"

\* C35: the native simulate and simulate::run are the same scheduler: run
\* on the same parties, step by step they make the same call to the same
\* party, deliver and enqueue the same messages with the same ids in the
\* same order, keep the same locals, and return the same result or error.
C35_SameScheduler ==
  [][/\ nat'.call = RunCalls
     /\ nat'.i = i' /\ nat'.iter = iter' /\ nat'.pc = pc'
     /\ nat'.n = n' /\ nat'.queues = queues' /\ nat'.wants_msg = wants_msg'
     /\ nat'.outputs = outputs' /\ nat'.done = done' /\ nat'.next_id = next_id'
     /\ nat'.enq = enq' /\ nat'.dlv = dlv'
     /\ nat'.result = result']_vars

\* Both returned the outputs of two parties after a message was delivered.
C35_Witness ==
  /\ n = 2 /\ pc = "returned" /\ result.kind = "Ok" /\ nat.result = result
  /\ nat.pc = "returned" /\ \E p \in Parties : nat.dlv[p] # <<>>
\* Both returned the error of a rejected delivery.
C35_WitnessErr ==
  /\ pc = "returned" /\ result.err = "failed to receive message"
  /\ nat.result = result /\ nat.call = "received_msg"


\* What process_round hands to the state machine for a wire message, and the
\* envelope create_session / process_round emit for an outgoing message.
WasmWouldDeliver(d) ==
  /\ ~NotForUs(d.party_index, d.wire)
  /\ PositionOf(d.parties_at_keygen, d.wire.sender) = Some(d.sender)
  /\ d.msg_type = MessageTypeOf(MsgTypeByte(d.wire.is_broadcast))
WasmWouldEmit(e) ==
  MpcMsgToWasm(e.party_index, e.dest, e.wire.payload, e.parties_at_keygen)

\* C36: the native run_sign_loop matches process_round: for the same session
\* data and the same incoming message both hand the same (sender position,
\* kind, payload) to the state machine, or both hand over nothing, and for the
\* same outgoing message both emit the same envelope (sender, is_broadcast,
\* recipient).
C36_NativeMatchesProcessRound ==
  /\ lastDlv.some => WasmWouldDeliver(lastDlv)
  /\ lastEmit.some => lastEmit.wire = WasmWouldEmit(lastEmit)

\* The native loop emitted a point-to-point envelope whose recipient is not
\* the one process_round emits for the same session and destination.
C36_NativeEnvelopeDiffers ==
  /\ impl = "native" /\ lastEmit.some /\ lastEmit.dest # None
  /\ lastEmit.dest[1] < Len(lastEmit.parties_at_keygen)
  /\ lastEmit.wire.recipient # WasmWouldEmit(lastEmit).recipient
\* The native loop handed over a message process_round skips.
C36_NativeDeliversSkipped ==
  impl = "native" /\ lastDlv.some /\ NotForUs(lastDlv.party_index, lastDlv.wire)


\* The copies placed in inbox p by the step.
NewIn(p) == SubSeq(enq'[p], Len(enq[p]) + 1, Len(enq'[p]))

\* C37: the simulator neither loses, duplicates nor misroutes messages.
\* What was handed to a party is, in order, a beginning of what was placed in
\* its inbox, and the rest is still in the inbox; a placement happens only
\* when the party being driven emits a message, carries that party as sender
\* and the kind of the emission: a broadcast puts one copy in every other
\* inbox and none in the sender's, a point-to-point message one copy in the
\* inbox of the named party and in no other.
C37_NoLossDuplicationMisrouting ==
  [][/\ \A p \in Parties : enq'[p] = dlv'[p] \o queues'[p]
     /\ \A p \in Parties : Len(enq'[p]) >= Len(enq[p])
     /\ \A p \in Parties : \A k \in 1 .. Len(NewIn(p)) :
          /\ CanProceed /\ ev' # ev
          /\ NewIn(p)[k].sender = i /\ NewIn(p)[k].msg = ev'.msg
          /\ ev'.sender = i
     /\ (ev'.dest = "all" /\ sends' # sends) =>
          \A p \in Parties :
            IF p # i
              THEN /\ Len(NewIn(p)) = 1
                   /\ NewIn(p)[1].msg_type = "Broadcast"
              ELSE NewIn(p) = <<>>
     /\ (ev'.dest = "one" /\ sends' # sends /\ ev'.to \in Parties) =>
          \A p \in Parties :
            IF p = ev'.to
              THEN /\ Len(NewIn(p)) = 1
                   /\ NewIn(p)[1].msg_type = "P2P"
              ELSE NewIn(p) = <<>>
     /\ sends' = sends => \A p \in Parties : NewIn(p) = <<>>]_vars

\* The second party was handed a broadcast of the first and then a
\* point-to-point message of the first.
C37_Witness ==
  /\ n = 2 /\ Len(dlv[1]) = 2 /\ dlv[1][1].msg_type = "Broadcast"
  /\ dlv[1][2].msg_type = "P2P" /\ dlv[1][1].sender = 0 /\ dlv[1][2].sender = 0
  /\ enq[0] = <<>>


\* C38: the simulator never indexes an inbox outside [0, n): when a party
\* emits a point-to-point message whose recipient is n or more, run (and the
\* native simulate) returns an error result; it does not abort.
C38_OutOfRangeRecipientIsError ==
  /\ pc = "returned" => result.kind \in {"Ok", "Err"}
  /\ nat.pc = "returned" => nat.result.kind \in {"Ok", "Err"}
  /\ (ev.dest = "one" /\ ev.to \notin Parties) =>
       (pc = "returned" /\ result.kind = "Err")

\* A party named recipient n, and the run was aborted by the index check.
C38_Aborted ==
  /\ ev.dest = "one" /\ ev.to = n /\ pc = "returned" /\ result.kind = "panic"
  /\ result = Panicked(ev.sender, n) /\ nat.result.kind = "panic"


\* The step looked at the envelope of a message of the batch.
Looked(d) == d.parties_at_keygen # <<>>
\* The envelope is a point-to-point message addressed to another party.
ForAnother(d) ==
  /\ ~d.wire.is_broadcast
  /\ d.wire.recipient # None
  /\ d.wire.recipient[1] # d.party_index
SenderKnown(d) ==
  \E k \in 1 .. Len(d.parties_at_keygen) : d.parties_at_keygen[k] = d.wire.sender

\* C39: process_round applies the recipient filter before it looks the sender
\* up.  A point-to-point message addressed to another party is skipped, with
\* no error and the session untouched, whoever its sender is; a message that
\* is a broadcast, has no recipient, or is addressed to this party fails the
\* round when its sender is not in parties_at_keygen.
C39_FilterBeforeSenderCheck ==
  [][(impl = "wasm" /\ Looked(lastDlv')) =>
       IF ForAnother(lastDlv')
         THEN /\ ~lastDlv'.some /\ ret' = NoRet
              /\ sessions' = sessions
              /\ call' = [call EXCEPT !.left = @ - 1]
         ELSE IF ~SenderKnown(lastDlv')
           THEN /\ ~lastDlv'.some
                /\ ~ret'.ok /\ ret'.op = "round" /\ ret'.err = "unknown sender"
                /\ call' = IdleCall
           ELSE lastDlv'.some]_vars

\* A point-to-point message for another party, from a sender outside the
\* group, was skipped.
C39_Witness ==
  /\ impl = "wasm" /\ Looked(lastDlv) /\ ForAnother(lastDlv) /\ ~SenderKnown(lastDlv)
  /\ ret = NoRet /\ call.op = "round"
\* A broadcast from a sender outside the group failed the round.
C39_WitnessBroadcast ==
  /\ impl = "wasm" /\ Looked(lastDlv) /\ lastDlv.wire.is_broadcast
  /\ ~SenderKnown(lastDlv) /\ ret.err = "unknown sender"


\* A call of process_round on the session stored under call.id is in progress.
InRound == call.op = "round" /\ call.pc # "idle"
Stored(store) == {id \in DOMAIN store : store[id] # NoSession}

\* C40: the session store operations are local to their session id.  No step
\* of process_round(id, ...) and no destroy_session(id) changes what is stored
\* under another id; process_round only goes on with a stored session, and
\* with an id that is not in the store it returns an error and leaves the
\* whole store as it was.
C40_StoreOperationsAreLocal ==
  [][/\ InRound => \A id \in DOMAIN sessions \ {call.id} : sessions'[id] = sessions[id]
     /\ (call.pc = "idle" /\ call'.op = "round") =>
          /\ call'.id \in Stored(sessions)
          /\ sessions' = sessions
     /\ ret'.op = "destroy" =>
          /\ \A id \in DOMAIN sessions \ {ret'.id} : sessions'[id] = sessions[id]
          /\ ret'.id \notin Stored(sessions')
          /\ ret'.ok = (ret'.id \in Stored(sessions))
     /\ ret'.err = "no sign session found" =>
          /\ ~ret'.ok /\ ret'.op = "round"
          /\ sessions' = sessions
          /\ call' = call /\ call.pc = "idle"
          /\ Stored(sessions) # DOMAIN sessions]_vars

\* A round finished the session it was called on while another session was
\* stored.
C40_Witness ==
  /\ ret.op = "round" /\ ret.ok /\ ret.complete
  /\ \E id \in Stored(sessions) : sessions[id].sm = "live"
  /\ \E id \in Stored(sessions) : sessions[id].sm = "finished"
\* A stored session was destroyed and another one is still there.
C40_WitnessDestroy ==
  /\ ret.op = "destroy" /\ ret.ok
  /\ Stored(sessions) # {}
\* process_round was called with an id that is not in a store that holds a
\* session.
C40_WitnessUnknownId ==
  /\ ret.err = "no sign session found"
  /\ Stored(sessions) # {}

====
